---------------------------- MODULE Spec2Model ----------------------------
(***************************************************************************)
(* Model of the map series translate/draw pipeline (MapSeries: setData,    *)
(* getBox, getExtremes, doFullTranslate, translate, translatePath,         *)
(* drawPoints) and of the stock compare pipeline (initCompare/modifyValue, *)
(* processData).                                                           *)
(*                                                                         *)
(* JavaScript numbers are modelled as exact rationals <<n, d>> (d > 0, in  *)
(* lowest terms); data-space coordinates are integers.                     *)
(***************************************************************************)
EXTENDS Integers, Sequences, FiniteSets, TLC

VARIABLES
    (* translatePath, called on its own *)
    pPath, pXAxis, pYAxis, pRet, pDone, pKind, pThrew,
    (* data join: MapSeries.setData / getBox / getExtremes *)
    mapData, seriesOpt, data, box, dataUsed, jThrew, jCalls,
    jDirty, hasRendered, lastIn, okIn, jLoaded, minRange, minRangeOption,
    (* redraw: MapSeries.translate / drawPoints *)
    xAxis, yAxis, points, baseTrans, isDirtyData, isResizing, isVML,
    transformGroup, phase, tMode, lastMode, sinceFull, prevGeom,
    unchangedSince, repeated,
    (* stock compare: Series.initCompare / modifyValue / processData *)
    compare, hasModifyValue, options, compareValue, processedXData,
    processedYData, xAxisMin, cOp, cArg, cRet, cChange

pathVars == <<pPath, pXAxis, pYAxis, pRet, pDone, pKind, pThrew>>
joinVars == <<mapData, seriesOpt, data, box, dataUsed, jThrew,
              jCalls, jDirty, hasRendered, lastIn, okIn, jLoaded, minRange,
              minRangeOption>>
drawVars == <<xAxis, yAxis, points, baseTrans, isDirtyData, isResizing,
              isVML, transformGroup, phase, tMode, lastMode, sinceFull,
              prevGeom, unchangedSince, repeated>>
cmpVars == <<compare, hasModifyValue, options, compareValue,
             processedXData, processedYData, xAxisMin, cOp, cArg, cRet,
             cChange>>

-----------------------------------------------------------------------------
(* Numbers *)

Abs(i) == IF i < 0 THEN -i ELSE i

RECURSIVE GCD(_, _)
GCD(a, b) == IF b = 0 THEN a ELSE GCD(b, a % b)

(* The rational n/d in lowest terms with a positive denominator; d # 0. *)
RNorm(n, d) ==
    LET g == GCD(Abs(n), Abs(d))
        s == IF d < 0 THEN -1 ELSE 1
    IN  <<(s * n) \div g, (s * d) \div g>>

RInt(i) == <<i, 1>>
RAdd(a, b) == RNorm(a[1] * b[2] + b[1] * a[2], a[2] * b[2])
RSub(a, b) == RNorm(a[1] * b[2] - b[1] * a[2], a[2] * b[2])
RMul(a, b) == RNorm(a[1] * b[1], a[2] * b[2])
RDiv(a, b) == RNorm(a[1] * b[2], a[2] * b[1])
RLt(a, b) == a[1] * b[2] < b[1] * a[2]
RLe(a, b) == a[1] * b[2] <= b[1] * a[2]
RAbs(a) == <<Abs(a[1]), a[2]>>

(* Math.round: the nearest integer, halves rounded towards +infinity. *)
MathRound(a) == (2 * a[1] + a[2]) \div (2 * a[2])
RMin(a, b) == IF RLe(a, b) THEN a ELSE b
RMax(a, b) == IF RLe(a, b) THEN b ELSE a

-----------------------------------------------------------------------------
(* Axis state read by the map series: min (possibly undefined), transA,    *)
(* minPixelPadding, len, reversed.                                         *)

Axis(minDef, min, transA, pad, len, reversed) ==
    [minDef |-> minDef, min |-> min, transA |-> transA,
     minPixelPadding |-> pad, len |-> len, reversed |-> reversed]

(* xMin || 0 : undefined (and 0) read as 0. *)
MinOr0(axis) == IF axis.minDef THEN axis.min ELSE 0

(* (coord - (min || 0)) * transA + minPixelPadding *)
transCoord(axis, v) ==
    RAdd(RMul(RInt(v - MinOr0(axis)), axis.transA), axis.minPixelPadding)

Seg(t, c) == [t |-> t, c |-> c]

(* One iteration of the forEach in translatePath: the segments pushed for  *)
(* one input segment (none for a tag other than M, L, C, Q, Z).            *)
translateSegMutQ(xa, ya, seg) ==
    IF seg.t = "M" THEN
        << Seg("M", <<transCoord(xa, seg.c[1]), transCoord(ya, seg.c[2])>>) >>
    ELSE IF seg.t = "L" THEN
        << Seg("L", <<transCoord(xa, seg.c[1]), transCoord(ya, seg.c[2])>>) >>
    ELSE IF seg.t = "C" THEN
        << Seg("C", <<transCoord(xa, seg.c[1]), transCoord(ya, seg.c[2]),
                      transCoord(xa, seg.c[3]), transCoord(ya, seg.c[4]),
                      transCoord(xa, seg.c[5]), transCoord(ya, seg.c[6])>>) >>
    ELSE IF seg.t = "Q" THEN
        << Seg("Q", <<transCoord(xa, seg.c[1]), transCoord(ya, seg.c[2]),
                      transCoord(ya, seg.c[3]), transCoord(xa, seg.c[4])>>) >>
    ELSE IF seg.t = "Z" THEN
        << Seg("Z", << >>) >>
    ELSE << >>

translateSeg(xa, ya, seg) ==
    IF seg.t = "M" THEN
        << Seg("M", <<transCoord(xa, seg.c[1]), transCoord(ya, seg.c[2])>>) >>
    ELSE IF seg.t = "L" THEN
        << Seg("L", <<transCoord(xa, seg.c[1]), transCoord(ya, seg.c[2])>>) >>
    ELSE IF seg.t = "C" THEN
        << Seg("C", <<transCoord(xa, seg.c[1]), transCoord(ya, seg.c[2]),
                      transCoord(xa, seg.c[3]), transCoord(ya, seg.c[4]),
                      transCoord(xa, seg.c[5]), transCoord(ya, seg.c[6])>>) >>
    ELSE IF seg.t = "Q" THEN
        << Seg("Q", <<transCoord(xa, seg.c[1]), transCoord(ya, seg.c[2]),
                      transCoord(xa, seg.c[3]), transCoord(ya, seg.c[4])>>) >>
    ELSE IF seg.t = "Z" THEN
        << Seg("Z", << >>) >>
    ELSE << >>

(* MapSeries.translatePath: a missing path is the empty sequence here and  *)
(* gives the empty result.                                                 *)
RECURSIVE translatePath(_, _, _)
translatePath(xa, ya, path) ==
    IF path = << >> THEN << >>
    ELSE translateSeg(xa, ya, Head(path)) \o translatePath(xa, ya, Tail(path))


-----------------------------------------------------------------------------
(* translatePath called on its own                                         *)

(* Largest number of segments of an enumerated path. *)
MaxSegs == 2

(* A variant that calls path.forEach without testing the path. *)
translatePathResultNoGuard(xa, ya, kind, path) ==
    IF kind = "array"
    THEN [threw |-> FALSE, ret |-> translatePath(xa, ya, path)]
    ELSE [threw |-> TRUE, ret |-> << >>]

(* The outcome of translatePath(path) for an argument of the given kind:   *)
(* an array of segments, undefined or null.  ret starts empty and the      *)
(* forEach runs only under if (path).                                      *)
translatePathResult(xa, ya, kind, path) ==
    IF kind = "array"
    THEN [threw |-> FALSE, ret |-> translatePath(xa, ya, path)]
    ELSE [threw |-> FALSE, ret |-> << >>]

PathKinds == {"array", "undefined", "null"}

Coords == {0, 10}

(* Segments of every kind; the control points of C and Q differ from the   *)
(* end point and from each other.  "A" stands for a tag translatePath      *)
(* does not know.                                                          *)
SegSet ==
    {Seg("M", <<x, y>>) : x \in Coords, y \in Coords}
    \cup {Seg("L", <<x, y>>) : x \in Coords, y \in Coords}
    \cup {Seg("C", <<x, y, x + 1, y + 2, x + 3, y + 4>>) :
              x \in Coords, y \in Coords}
    \cup {Seg("Q", <<x, y, x + 1, y + 2>>) : x \in Coords, y \in Coords}
    \cup {Seg("Z", << >>), Seg("A", <<1, 1, 0, 0, 1, 3, 4>>)}

SquarePath ==
    <<Seg("M", <<0, 0>>), Seg("L", <<10, 0>>), Seg("L", <<10, 10>>),
      Seg("Z", << >>)>>

PathInputs ==
    UNION {[1..n -> SegSet] : n \in 0..MaxSegs} \cup {SquarePath}

IdentityAxis == Axis(TRUE, 0, RInt(1), RInt(0), 100, TRUE)
TenAxis == Axis(TRUE, 0, RInt(10), RInt(0), 100, TRUE)

PathAxes ==
    {IdentityAxis, TenAxis,
     Axis(FALSE, 0, <<3, 2>>, RInt(5), 100, TRUE),
     Axis(TRUE, 2, RInt(10), RInt(5), 100, TRUE),
     Axis(TRUE, -3, RInt(2), RInt(0), 100, TRUE)}

PathInit ==
    /\ pPath = << >>
    /\ pXAxis \in PathAxes
    /\ pYAxis \in PathAxes
    /\ pRet = << >>
    /\ pDone = FALSE
    /\ pKind = "array"
    /\ pThrew = FALSE

(* series.translatePath(path) *)
TranslatePathCall ==
    /\ ~pDone
    /\ \E kind \in PathKinds :
          \E path \in IF kind = "array" THEN PathInputs ELSE {<< >>} :
             LET r == translatePathResult(pXAxis, pYAxis, kind, path)
             IN  /\ pKind' = kind
                 /\ pPath' = path
                 /\ pRet' = r.ret
                 /\ pThrew' = r.threw
    /\ pDone' = TRUE
    /\ UNCHANGED <<pXAxis, pYAxis>>

-----------------------------------------------------------------------------
(* Data join: MapSeries.setData, getBox, getExtremes                       *)

(* Number.MAX_VALUE *)
MAX_VALUE == 1000000

Min2(a, b) == IF a < b THEN a ELSE b
Max2(a, b) == IF a > b THEN a ELSE b

(* A point options record, or a mapData record.  form is the way the user  *)
(* wrote a value record ("number", "null", "array", "object") or "map" for *)
(* a mapData record; key is the value of the join property (0: the record  *)
(* has none).  found, minX .. maxY are the box cache (_foundBox, _minX,    *)
(* ...) that getBox writes on the record itself; labelrank is the option  *)
(* of that name, undefined unless the user or getBox has set it.           *)
Rec(form, key, hasValue, value, hasPath, path) ==
    [form |-> form, key |-> key, hasValue |-> hasValue, value |-> value,
     hasPath |-> hasPath, path |-> path,
     found |-> FALSE, minX |-> 0, maxX |-> 0, minY |-> 0, maxY |-> 0,
     midX |-> <<0, 1>>, midY |-> <<0, 1>>,
     labelrank |-> [def |-> FALSE, v |-> 0]]

NoBox == [def |-> FALSE, minX |-> 0, maxX |-> 0, minY |-> 0, maxY |-> 0]
EmptyAcc ==
    [hasBox |-> FALSE, minX |-> MAX_VALUE, maxX |-> -MAX_VALUE,
     minY |-> MAX_VALUE, maxY |-> -MAX_VALUE, minRange |-> MAX_VALUE]

(* The fold over the segments of one path in getBox: x and y are the last  *)
(* two entries of the segment, taken only when both are numbers.           *)
RECURSIVE pathBox(_, _)
pathBox(path, acc) ==
    IF path = << >> THEN acc
    ELSE LET c == Head(path).c
             n == Len(c)
         IN  IF n >= 2
             THEN pathBox(Tail(path),
                          [acc EXCEPT !.minX = Min2(@, c[n - 1]),
                                      !.maxX = Max2(@, c[n - 1]),
                                      !.minY = Min2(@, c[n]),
                                      !.maxY = Max2(@, c[n])])
             ELSE pathBox(Tail(path), acc)

(* pointMin + (pointMax - pointMin) * pick(middle, hc-middle, 0.5), with   *)
(* neither middleX/middleY nor hc-middle-x/hc-middle-y given.              *)
midOf(lo, hi) == RAdd(RInt(lo), RMul(RInt(hi - lo), <<1, 2>>))

(* pick(point.labelrank, (pointMaxX - pointMinX) * (pointMaxY - pointMinY)) *)
(* Where no pair was found both differences are -MAX_VALUE - MAX_VALUE,    *)
(* which is -Infinity in the code, and their product is Infinity: a        *)
(* labelrank of MAX_VALUE stands for it.                                   *)
pickLabelrank(rank, b) ==
    IF rank.def THEN rank
    ELSE IF b.maxX < b.minX THEN [def |-> TRUE, v |-> MAX_VALUE]
    ELSE [def |-> TRUE, v |-> (b.maxX - b.minX) * (b.maxY - b.minY)]

(* A fold over every coordinate pair of the segments, control points       *)
(* included.                                                               *)
RECURSIVE pairsBox(_, _, _)
pairsBox(c, k, acc) ==
    IF 2 * k > Len(c) THEN acc
    ELSE pairsBox(c, k + 1,
                  [acc EXCEPT !.minX = Min2(@, c[2 * k - 1]),
                              !.maxX = Max2(@, c[2 * k - 1]),
                              !.minY = Min2(@, c[2 * k]),
                              !.maxY = Max2(@, c[2 * k])])

RECURSIVE pathBoxAllPairs(_, _)
pathBoxAllPairs(path, acc) ==
    IF path = << >> THEN acc
    ELSE pathBoxAllPairs(Tail(path), pairsBox(Head(path).c, 1, acc))

(* A variant of the analysis whose box covers the control points. *)
analyzePointAllPairs(p) ==
    IF p.hasPath /\ ~p.found
    THEN LET b == pathBoxAllPairs(p.path, EmptyAcc)
         IN  [p EXCEPT !.found = TRUE, !.minX = b.minX, !.maxX = b.maxX,
                       !.minY = b.minY, !.maxY = b.maxY,
                       !.midX = midOf(b.minX, b.maxX),
                       !.midY = midOf(b.minY, b.maxY),
                       !.labelrank = pickLabelrank(@, b)]
    ELSE p

(* A variant of the analysis that walks the path on every call. *)
analyzePointAgain(p) ==
    IF p.hasPath
    THEN LET b == pathBox(p.path, EmptyAcc)
         IN  [p EXCEPT !.found = TRUE, !.minX = b.minX, !.maxX = b.maxX,
                       !.minY = b.minY, !.maxY = b.maxY,
                       !.midX = midOf(b.minX, b.maxX),
                       !.midY = midOf(b.minY, b.maxY),
                       !.labelrank = pickLabelrank(@, b)]
    ELSE p

(* The first time a map point is used, analyze its box and cache it. *)
analyzePoint(p) ==
    IF p.hasPath /\ ~p.found
    THEN LET b == pathBox(p.path, EmptyAcc)
         IN  [p EXCEPT !.found = TRUE, !.minX = b.minX, !.maxX = b.maxX,
                       !.minY = b.minY, !.maxY = b.maxY,
                       !.midX = midOf(b.minX, b.maxX),
                       !.midY = midOf(b.minY, b.maxY),
                       !.labelrank = pickLabelrank(@, b)]
    ELSE p

(* The running box of the forEach in getBox after one more point. *)
foldPoint(acc, p) ==
    IF p.hasPath
    THEN [hasBox |-> TRUE,
          maxX |-> Max2(acc.maxX, p.maxX), minX |-> Min2(acc.minX, p.minX),
          maxY |-> Max2(acc.maxY, p.maxY), minY |-> Min2(acc.minY, p.minY),
          minRange |-> Min2(Min2(p.maxX - p.minX, p.maxY - p.minY),
                            acc.minRange)]
    ELSE acc

RECURSIVE foldBox(_, _)
foldBox(pts, acc) ==
    IF pts = << >> THEN acc
    ELSE foldBox(Tail(pts), foldPoint(acc, analyzePoint(Head(pts))))

(* A variant that takes the box of the points of the call alone. *)
seriesBoxFresh(b, acc) ==
    IF acc.hasBox
    THEN [def |-> TRUE, minY |-> acc.minY, maxY |-> acc.maxY,
          minX |-> acc.minX, maxX |-> acc.maxX]
    ELSE b

(* Set the box for the whole series: the box of the points folded into    *)
(* the box the series already has.                                         *)
seriesBox(b, acc) ==
    IF acc.hasBox
    THEN [def |-> TRUE,
          minY |-> Min2(acc.minY, IF b.def THEN b.minY ELSE MAX_VALUE),
          maxY |-> Max2(acc.maxY, IF b.def THEN b.maxY ELSE -MAX_VALUE),
          minX |-> Min2(acc.minX, IF b.def THEN b.minX ELSE MAX_VALUE),
          maxX |-> Max2(acc.maxX, IF b.def THEN b.maxX ELSE -MAX_VALUE)]
    ELSE b

(* MapSeries.getBox(paths): the records with their caches filled, and the  *)
(* series box.                                                             *)
getBox(paths, b) ==
    [pts |-> [i \in 1..Len(paths) |-> analyzePoint(paths[i])],
     box |-> seriesBox(b, foldBox(paths, EmptyAcc))]

NoMinRange ==
    [x |-> [def |-> FALSE, v |-> <<0, 1>>],
     y |-> [def |-> FALSE, v |-> <<0, 1>>]]

(* Math.min(5 * minRange, (this.maxX - this.minX) / 5,                     *)
(*          xAxis.minRange || MAX_VALUE)                                   *)
axisMinRange(prev, smallest, extent) ==
    [def |-> TRUE,
     v |-> RMin(RMin(RInt(5 * smallest), RDiv(RInt(extent), RInt(5))),
                IF prev.def /\ prev.v[1] # 0 THEN prev.v
                ELSE RInt(MAX_VALUE))]

(* MapSeries.getBox(paths): the minRange of the two axes after the call.   *)
(* mr holds the minRange of the axes before the call, mo tells for each    *)
(* axis whether its minRange option is set.                                *)
getBoxMinRange(paths, b, mr, mo) ==
    LET acc == foldBox(paths, EmptyAcc)
        nb == seriesBox(b, acc)
    IN  IF acc.hasBox
        THEN [x |-> IF mo.x THEN mr.x
                    ELSE axisMinRange(mr.x, acc.minRange,
                                      nb.maxX - nb.minX),
              y |-> IF mo.y THEN mr.y
                    ELSE axisMinRange(mr.y, acc.minRange,
                                      nb.maxY - nb.minY)]
        ELSE mr

(* Pick up numeric values, add index: the record data[i] after the first   *)
(* loop of setData.  With joinBy null (joinBy[0] = "_i") the join property *)
(* of the record is its position.                                          *)
normalise(rec, i, joinByNull) ==
    [rec EXCEPT !.key = IF joinByNull THEN i ELSE @]

(* The join property of mapData[i]: its position (_i) with joinBy null.    *)
mapKey(md, i, joinByNull) == IF joinByNull THEN i ELSE md[i].key

(* mapMap[key]: the index of the last mapData record with that key, 0 when *)
(* there is none.                                                          *)
mapMap(md, joinByNull, key) ==
    LET hits == {i \in 1..Len(md) : mapKey(md, i, joinByNull) = key}
    IN  IF hits = {} THEN 0
        ELSE CHOOSE i \in hits : \A j \in hits : j <= i

(* The indices in mapData of the records pushed to dataUsed. *)
RECURSIVE usedOf(_, _, _)
usedOf(d, md, joinByNull) ==
    IF d = << >> THEN << >>
    ELSE LET m == mapMap(md, joinByNull, Head(d).key)
         IN  (IF m # 0 THEN <<m>> ELSE << >>)
             \o usedOf(Tail(d), md, joinByNull)

Range(s) == {s[i] : i \in 1..Len(s)}

(* merge(mapPoint, { value: null }) *)
nullPoint(mp, key) ==
    [mp EXCEPT !.form = "map", !.key = key, !.hasValue = FALSE, !.value = 0]

(* A variant that adds every map point, used or not. *)
RECURSIVE unusedAreasAll(_, _, _, _)
unusedAreasAll(md, i, usedKeys, joinByNull) ==
    IF i > Len(md) THEN << >>
    ELSE <<nullPoint(md[i], mapKey(md, i, joinByNull))>>
         \o unusedAreasAll(md, i + 1, usedKeys, joinByNull)

(* The map points that do not correspond to data, in mapData order. *)
RECURSIVE unusedAreas(_, _, _, _)
unusedAreas(md, i, usedKeys, joinByNull) ==
    IF i > Len(md) THEN << >>
    ELSE (IF mapKey(md, i, joinByNull) \notin usedKeys
          THEN <<nullPoint(md[i], mapKey(md, i, joinByNull))>>
          ELSE << >>)
         \o unusedAreas(md, i + 1, usedKeys, joinByNull)

(* A variant that drops the value records matching no mapData record. *)
RECURSIVE matchedOnly(_, _, _)
matchedOnly(d, md, joinByNull) ==
    IF d = << >> THEN << >>
    ELSE (IF mapMap(md, joinByNull, Head(d).key) # 0
          THEN <<Head(d)>> ELSE << >>)
         \o matchedOnly(Tail(d), md, joinByNull)

(* The list handed to Series.prototype.setData: the value records, and     *)
(* with allAreas the unused map points after them.                         *)
mergedDropUnmatched(d, md, usedKeys, opt) ==
    IF opt.allAreas
    THEN matchedOnly(d, md, opt.joinByNull)
         \o unusedAreas(md, 1, usedKeys, opt.joinByNull)
    ELSE matchedOnly(d, md, opt.joinByNull)

merged(d, md, usedKeys, opt) ==
    IF opt.allAreas
    THEN d \o unusedAreas(md, 1, usedKeys, opt.joinByNull)
    ELSE d

(* MapSeries.setData(dataIn) on a series with map data md, series box b    *)
(* and options opt.  A bare null in dataIn raises a TypeError before the   *)
(* series is touched: at data[i]._i = i with joinBy null, at point.path in *)
(* getBox(data) otherwise.                                                 *)
setDataThrows(dataIn) == \E i \in 1..Len(dataIn) : dataIn[i].form = "null"

setData(dataIn, md, b, opt) ==
    LET d0 == [i \in 1..Len(dataIn) |->
                   normalise(dataIn[i], i, opt.joinByNull)]
        g1 == getBox(d0, b)
        used == usedOf(g1.pts, md, opt.joinByNull)
        usedKeys == {mapKey(md, used[i], opt.joinByNull) :
                        i \in 1..Len(used)}
        g2 == IF opt.allAreas
              THEN getBox(md, g1.box)
              ELSE getBox([i \in 1..Len(used) |-> md[used[i]]], g1.box)
        md2 == IF opt.allAreas THEN g2.pts
               ELSE [i \in 1..Len(md) |->
                        IF i \in Range(used) THEN analyzePoint(md[i])
                        ELSE md[i]]
    IN  [data |-> merged(g1.pts, md2, usedKeys, opt),
         mapData |-> md2, box |-> g2.box, dataUsed |-> used]

(* The minRange of the axes after setData: its two getBox calls in turn. *)
setDataMinRange(dataIn, md, b, opt, mr, mo) ==
    LET d0 == [i \in 1..Len(dataIn) |->
                   normalise(dataIn[i], i, opt.joinByNull)]
        g1 == getBox(d0, b)
        mr1 == getBoxMinRange(d0, b, mr, mo)
        used == usedOf(g1.pts, md, opt.joinByNull)
    IN  IF opt.allAreas
        THEN getBoxMinRange(md, g1.box, mr1, mo)
        ELSE getBoxMinRange([i \in 1..Len(used) |-> md[used[i]]],
                            g1.box, mr1, mo)

(* Bounds of the enumerated datasets and of the number of setData calls. *)
MaxShapes == 2
MaxValues == 2
MaxCalls == 2

(* The geometry of the i-th mapData record. *)
Geom(i) ==
    IF i = 1 THEN SquarePath
    ELSE IF i = 2
    THEN <<Seg("M", <<20, 5>>), Seg("C", <<40, 50, 30, 30, 25, 8>>),
           Seg("Z", << >>)>>
    ELSE <<Seg("M", <<4 + i, 4>>), Seg("L", <<5 + i, 4>>)>>

OwnPath == <<Seg("M", <<-5, -5>>), Seg("L", <<-2, -1>>)>>

Num(v) == Rec("number", 0, TRUE, v, FALSE, << >>)
BareNull == Rec("null", 0, FALSE, 0, FALSE, << >>)

(* Value records given as objects: a value for the key 1, a null value    *)
(* for the key 2, a value for the key 3.                                   *)
ValueRecs ==
    {Rec("object", 1, TRUE, 7, FALSE, << >>),
     Rec("object", 2, FALSE, 0, FALSE, << >>),
     Rec("object", 3, TRUE, 9, FALSE, << >>)}

(* The value dataset [1, null, 3]. *)
NullExample == <<Num(1), BareNull, Num(3)>>

(* Value datasets with a bare null entry. *)
NullInputs == {<<BareNull>>, <<Num(1), BareNull>>, NullExample}

(* Value datasets with a number, an array and a record with its own path. *)
OtherInputs ==
    {<<Num(1)>>,
     <<Rec("array", 2, TRUE, 5, FALSE, << >>), Num(3)>>,
     <<Rec("object", 0, TRUE, 7, TRUE, OwnPath)>>,
     <<Rec("object", 1, TRUE, 7, FALSE, << >>),
       Rec("object", 0, TRUE, 7, TRUE, OwnPath)>>}

DataIns ==
    UNION {[1..n -> ValueRecs] : n \in 0..MaxValues}
    \cup OtherInputs \cup NullInputs

(* n shapes with the keys 1 .. n. *)
Shapes(n) == [i \in 1..n |-> Rec("map", i, FALSE, 0, TRUE, Geom(i))]

ThreeShapes == Shapes(3)

(* Two shapes with the same key. *)
SameKeyShapes == [i \in 1..2 |-> Rec("map", 1, FALSE, 0, TRUE, Geom(i))]

MapDatas ==
    {Shapes(n) : n \in 0..MaxShapes} \cup {ThreeShapes, SameKeyShapes}

JoinInit ==
    /\ mapData \in MapDatas
    /\ seriesOpt \in [allAreas : BOOLEAN, joinByNull : BOOLEAN]
    /\ data = << >>
    /\ box = NoBox
    /\ dataUsed = << >>
    /\ jThrew = FALSE
    /\ jCalls = 0
    /\ jDirty = FALSE
    /\ hasRendered = FALSE
    /\ lastIn = << >>
    /\ okIn = << >>
    /\ jLoaded = FALSE
    /\ minRange = NoMinRange
    /\ minRangeOption = [x |-> FALSE, y |-> FALSE]

(* series.setData(dataIn) completing: Series.prototype.setData stores the  *)
(* merged list as options.data and marks the series dirty.                 *)
SetData ==
    /\ jCalls < MaxCalls
    /\ \E dataIn \in DataIns :
          /\ ~setDataThrows(dataIn)
          /\ LET r == setData(dataIn, mapData, box, seriesOpt)
             IN  /\ data' = r.data
                 /\ mapData' = r.mapData
                 /\ box' = r.box
                 /\ dataUsed' = r.dataUsed
          /\ minRange' = setDataMinRange(dataIn, mapData, box, seriesOpt,
                                         minRange, minRangeOption)
          /\ lastIn' = dataIn
          /\ okIn' = dataIn
    /\ jThrew' = FALSE
    /\ jLoaded' = TRUE
    /\ jDirty' = TRUE
    /\ jCalls' = jCalls + 1
    /\ UNCHANGED <<seriesOpt, hasRendered, minRangeOption>>

(* series.setData(dataIn) raising a TypeError. *)
SetDataThrow ==
    /\ jCalls < MaxCalls
    /\ \E dataIn \in DataIns :
          /\ setDataThrows(dataIn)
          /\ lastIn' = dataIn
    /\ jThrew' = TRUE
    /\ jCalls' = jCalls + 1
    /\ UNCHANGED <<mapData, seriesOpt, data, box, dataUsed, jDirty,
                   hasRendered, okIn, jLoaded, minRange, minRangeOption>>

(* series.getExtremes(): recalculate box on updated data. *)
GetExtremes ==
    /\ hasRendered /\ jDirty
    /\ LET g == getBox(data, box)
       IN  /\ data' = g.pts
           /\ box' = g.box
    /\ minRange' = getBoxMinRange(data, box, minRange, minRangeOption)
    /\ UNCHANGED <<mapData, seriesOpt, dataUsed, jThrew, jCalls,
                   jDirty, hasRendered, lastIn, okIn, jLoaded,
                   minRangeOption>>

(* The chart has rendered the series: chart.hasRendered is set and the     *)
(* series is no longer dirty.                                              *)
Rendered ==
    /\ jCalls > 0
    /\ jDirty \/ ~hasRendered
    /\ hasRendered' = TRUE
    /\ jDirty' = FALSE
    /\ UNCHANGED <<mapData, seriesOpt, data, box, dataUsed, jThrew,
                   jCalls, lastIn, okIn, jLoaded, minRange, minRangeOption>>

-----------------------------------------------------------------------------
(* getBox on its own: MapSeries.getBox called with lists of points         *)

(* The series box and the minRange of the axes on entry of the last        *)
(* getBox call.                                                            *)
VARIABLES before

boxVars == <<before>>

(* A path without a numeric coordinate pair: a lone closing segment. *)
NoPairPath == <<Seg("Z", << >>)>>

(* The points handed to getBox: three shapes, the last of them flat, a     *)
(* record with its own path, a record without a path, a shape with a       *)
(* labelrank of its own and a shape whose path has no coordinate pair.     *)
BoxPool ==
    <<Rec("map", 1, FALSE, 0, TRUE, Geom(1)),
      Rec("map", 2, FALSE, 0, TRUE, Geom(2)),
      Rec("map", 3, FALSE, 0, TRUE, Geom(3)),
      Rec("object", 0, TRUE, 7, TRUE, OwnPath),
      Num(1),
      [Rec("map", 4, FALSE, 0, TRUE, Geom(1)) EXCEPT
          !.labelrank = [def |-> TRUE, v |-> 7]],
      Rec("map", 5, FALSE, 0, TRUE, NoPairPath)>>

RECURSIVE PickFrom(_, _, _)
PickFrom(pool, S, i) ==
    IF i > Len(pool) THEN << >>
    ELSE IF i \in S THEN <<pool[i]>> \o PickFrom(pool, S, i + 1)
    ELSE PickFrom(pool, S, i + 1)

BoxArgs ==
    {PickFrom(BoxPool, S, 1) :
        S \in {T \in SUBSET (1..Len(BoxPool)) : Cardinality(T) <= MaxShapes}}

(* An axis with the minRange option set has taken its minRange from it. *)
OptionMinRange(set) ==
    IF set THEN [def |-> TRUE, v |-> <<3, 1>>]
    ELSE [def |-> FALSE, v |-> <<0, 1>>]

BoxIdle ==
    before = [called |-> FALSE, paths |-> << >>, box |-> NoBox,
              minRange |-> NoMinRange]

(* The records of the last call handed to getBox again, as they are or     *)
(* with the path of one of them replaced in the meantime.                  *)
Reused(pts) ==
    IF pts = << >> THEN {}
    ELSE {pts} \cup {[pts EXCEPT ![i].path = Geom(3), ![i].hasPath = TRUE] :
                         i \in 1..Len(pts)}

BoxInit ==
    /\ mapData = << >>
    /\ seriesOpt = [allAreas |-> TRUE, joinByNull |-> FALSE]
    /\ data = << >> /\ box = NoBox /\ dataUsed = << >>
    /\ jThrew = FALSE /\ jCalls = 0 /\ jDirty = FALSE
    /\ hasRendered = FALSE /\ lastIn = << >> /\ okIn = << >>
    /\ jLoaded = FALSE
    /\ minRangeOption \in [x : BOOLEAN, y : BOOLEAN]
    /\ minRange = [x |-> OptionMinRange(minRangeOption.x),
                   y |-> OptionMinRange(minRangeOption.y)]
    /\ BoxIdle

(* series.getBox(paths) *)
GetBoxCall ==
    /\ jCalls < MaxCalls
    /\ \E paths \in BoxArgs \cup Reused(data) :
          LET g == getBox(paths, box)
          IN  /\ data' = g.pts
              /\ box' = g.box
              /\ minRange' = getBoxMinRange(paths, box, minRange,
                                            minRangeOption)
              /\ before' = [called |-> TRUE, paths |-> paths, box |-> box,
                            minRange |-> minRange]
    /\ jCalls' = jCalls + 1
    /\ UNCHANGED <<mapData, seriesOpt, dataUsed, jThrew, jDirty,
                   hasRendered, lastIn, okIn, jLoaded, minRangeOption>>

-----------------------------------------------------------------------------
(* Redraw: MapSeries.doFullTranslate, translate, drawPoints                *)

(* Axis.toPixels(value, true): the pixel position of a value in the pane.  *)
(* A horizontal axis and a reversed vertical axis grow with the value from *)
(* minPixelPadding; a vertical axis that is not reversed runs from len     *)
(* downwards.                                                              *)
toPixels(axis, horiz, v) ==
    LET along == RAdd(RMul(RSub(v, RInt(axis.min)), axis.transA),
                      axis.minPixelPadding)
    IN  IF horiz \/ axis.reversed THEN along
        ELSE RSub(RInt(axis.len), along)

NoBaseTrans ==
    [def |-> FALSE, originX |-> <<0, 1>>, originY |-> <<0, 1>>,
     transAX |-> <<1, 1>>, transAY |-> <<1, 1>>]

(* A variant that forgets the resizing chart. *)
doFullTranslateNoResize(dirty, resizing, vml, bt) ==
    dirty \/ vml \/ ~bt.def

(* MapSeries.doFullTranslate *)
doFullTranslate(dirty, resizing, vml, bt) ==
    dirty \/ resizing \/ vml \/ ~bt.def

(* A variant of the loop body of translate that moves plotX on from its    *)
(* previous value.                                                         *)
translatePointDrift(pt, xa, ya, full) ==
    LET p1 == IF pt.midDef
              THEN [pt EXCEPT !.plotDef = TRUE,
                              !.plotX = RAdd(pt.plotX,
                                             toPixels(xa, TRUE, pt.midX)),
                              !.plotY = toPixels(ya, FALSE, pt.midY)]
              ELSE pt
    IN  IF full
        THEN [p1 EXCEPT !.shapeDef = TRUE,
                        !.d = translatePath(xa, ya, pt.path)]
        ELSE p1

(* A variant of the loop body of translate that computes the path in every *)
(* mode.                                                                   *)
translatePointAlwaysPath(pt, xa, ya, full) ==
    LET p1 == IF pt.midDef
              THEN [pt EXCEPT !.plotDef = TRUE,
                              !.plotX = toPixels(xa, TRUE, pt.midX),
                              !.plotY = toPixels(ya, FALSE, pt.midY)]
              ELSE pt
    IN  [p1 EXCEPT !.shapeDef = TRUE,
                   !.d = translatePath(xa, ya, pt.path)]

(* The loop body of translate: the middle point in pixels, and in a full   *)
(* translate the path.                                                     *)
translatePoint(pt, xa, ya, full) ==
    LET p1 == IF pt.midDef
              THEN [pt EXCEPT !.plotDef = TRUE,
                              !.plotX = toPixels(xa, TRUE, pt.midX),
                              !.plotY = toPixels(ya, FALSE, pt.midY)]
              ELSE pt
    IN  IF full
        THEN [p1 EXCEPT !.shapeDef = TRUE,
                        !.d = translatePath(xa, ya, pt.path)]
        ELSE p1

(* A variant of the base that leaves the pixel padding out of the origin. *)
newBaseTransNoPadding(xa, ya) ==
    [def |-> TRUE,
     originX |-> RInt(xa.min),
     originY |-> RAdd(RInt(ya.min),
                      IF ya.reversed THEN RInt(0)
                      ELSE RDiv(RInt(ya.len), ya.transA)),
     transAX |-> xa.transA,
     transAY |-> ya.transA]

(* Set the base for later scale-zooming. *)
newBaseTrans(xa, ya) ==
    [def |-> TRUE,
     originX |-> RSub(RInt(xa.min), RDiv(xa.minPixelPadding, xa.transA)),
     originY |-> RAdd(RSub(RInt(ya.min),
                           RDiv(ya.minPixelPadding, ya.transA)),
                      IF ya.reversed THEN RInt(0)
                      ELSE RDiv(RInt(ya.len), ya.transA)),
     transAX |-> xa.transA,
     transAY |-> ya.transA]

Identity ==
    [translateX |-> <<0, 1>>, translateY |-> <<0, 1>>,
     scaleX |-> <<1, 1>>, scaleY |-> <<1, 1>>]

(* A variant of the fast path whose comparisons with 0.99 and 1.01 include *)
(* the bounds.                                                             *)
fastTransformInclusive(xa, ya, bt) ==
    LET scaleX == RDiv(xa.transA, bt.transAX)
        scaleY == RDiv(ya.transA, bt.transAY)
        translateX == toPixels(xa, TRUE, bt.originX)
        translateY == toPixels(ya, FALSE, bt.originY)
    IN  IF /\ RLe(<<99, 100>>, scaleX) /\ RLe(scaleX, <<101, 100>>)
           /\ RLe(<<99, 100>>, scaleY) /\ RLe(scaleY, <<101, 100>>)
        THEN [translateX |-> RInt(MathRound(translateX)),
              translateY |-> RInt(MathRound(translateY)),
              scaleX |-> RInt(1), scaleY |-> RInt(1)]
        ELSE [translateX |-> translateX, translateY |-> translateY,
              scaleX |-> scaleX, scaleY |-> scaleY]

(* Just update the scale and transform: the attributes drawPoints gives    *)
(* the transform group in the fast path.                                   *)
fastTransform(xa, ya, bt) ==
    LET scaleX == RDiv(xa.transA, bt.transAX)
        scaleY == RDiv(ya.transA, bt.transAY)
        translateX == toPixels(xa, TRUE, bt.originX)
        translateY == toPixels(ya, FALSE, bt.originY)
    IN  IF /\ RLt(<<99, 100>>, scaleX) /\ RLt(scaleX, <<101, 100>>)
           /\ RLt(<<99, 100>>, scaleY) /\ RLt(scaleY, <<101, 100>>)
        THEN [translateX |-> RInt(MathRound(translateX)),
              translateY |-> RInt(MathRound(translateY)),
              scaleX |-> RInt(1), scaleY |-> RInt(1)]
        ELSE [translateX |-> translateX, translateY |-> translateY,
              scaleX |-> scaleX, scaleY |-> scaleY]

(* Bound of the total panning distance, in axis units. *)
MaxPan == 1

(* The zoom levels of the chart: transA and minPixelPadding of both axes. *)
ZoomLevels ==
    {[tx |-> <<1, 1>>, ty |-> <<1, 1>>, px |-> <<0, 1>>, py |-> <<0, 1>>],
     [tx |-> <<3, 2>>, ty |-> <<3, 2>>, px |-> <<5, 2>>, py |-> <<1, 1>>],
     [tx |-> <<199, 200>>, ty |-> <<1, 1>>, px |-> <<1, 4>>,
      py |-> <<0, 1>>],
     [tx |-> <<99, 100>>, ty |-> <<1, 1>>, px |-> <<1, 4>>,
      py |-> <<0, 1>>]}

PlotLen == 100

(* A point of the series: its path and middle point as joined from the map *)
(* data, and what translate writes.                                        *)
PointOf(rec) ==
    [path |-> rec.path, midDef |-> rec.hasPath /\ rec.found,
     midX |-> rec.midX, midY |-> rec.midY,
     plotDef |-> FALSE, plotX |-> <<0, 1>>, plotY |-> <<0, 1>>,
     shapeDef |-> FALSE, d |-> << >>]

(* Two map areas and a point that matched no area. *)
SeriesPoints ==
    <<PointOf(analyzePoint(ThreeShapes[1])),
      PointOf(analyzePoint(ThreeShapes[2])),
      PointOf(Rec("object", 3, TRUE, 9, FALSE, << >>))>>

Geometry(pts) ==
    [i \in 1..Len(pts) |->
        [plotDef |-> pts[i].plotDef, plotX |-> pts[i].plotX,
         plotY |-> pts[i].plotY, shapeDef |-> pts[i].shapeDef,
         d |-> pts[i].d]]

DrawInit ==
    /\ \E z \in ZoomLevels, rev \in BOOLEAN :
          /\ xAxis = Axis(TRUE, 0, z.tx, z.px, PlotLen, FALSE)
          /\ yAxis = Axis(TRUE, 0, z.ty, z.py, PlotLen, rev)
    /\ points = SeriesPoints
    /\ baseTrans = NoBaseTrans
    /\ isDirtyData = FALSE
    /\ isResizing = FALSE
    /\ isVML \in BOOLEAN
    /\ transformGroup = Identity
    /\ phase = "idle"
    /\ tMode = "none"
    /\ lastMode = "none"
    /\ sinceFull = "none"
    /\ prevGeom = Geometry(SeriesPoints)
    /\ unchangedSince = FALSE
    /\ repeated = FALSE

(* series.translate() *)
Translate ==
    /\ phase \in {"idle", "translated"}
    /\ LET full == doFullTranslate(isDirtyData, isResizing, isVML, baseTrans)
       IN  /\ points' = [i \in 1..Len(points) |->
                            translatePoint(points[i], xAxis, yAxis, full)]
           /\ tMode' = IF full THEN "full" ELSE "fast"
    /\ phase' = "translated"
    /\ repeated' = unchangedSince
    /\ prevGeom' = IF unchangedSince THEN prevGeom ELSE Geometry(points')
    /\ unchangedSince' = TRUE
    /\ UNCHANGED <<xAxis, yAxis, baseTrans, isDirtyData, isResizing, isVML,
                   transformGroup, lastMode, sinceFull>>

(* series.drawPoints(), called by the render that follows translate. *)
DrawPoints ==
    /\ phase = "translated"
    /\ IF doFullTranslate(isDirtyData, isResizing, isVML, baseTrans)
       THEN /\ baseTrans' = newBaseTrans(xAxis, yAxis)
            /\ transformGroup' = Identity
            /\ lastMode' = "full"
            /\ sinceFull' = "none"
       ELSE /\ transformGroup' = fastTransform(xAxis, yAxis, baseTrans)
            /\ lastMode' = "fast"
            /\ UNCHANGED <<baseTrans, sinceFull>>
    /\ phase' = "drawn"
    /\ UNCHANGED <<xAxis, yAxis, points, isDirtyData, isResizing, isVML,
                   tMode, prevGeom, unchangedSince, repeated>>

(* The chart ends the redraw of the series: the data is no longer dirty. *)
EndRedraw ==
    /\ phase = "drawn"
    /\ phase' = "idle"
    /\ isDirtyData' = FALSE
    /\ unchangedSince' = (unchangedSince /\ ~isDirtyData)
    /\ repeated' = (repeated /\ ~isDirtyData)
    /\ UNCHANGED <<xAxis, yAxis, points, baseTrans, isResizing, isVML,
                   transformGroup, tMode, lastMode, sinceFull, prevGeom>>

(* The user pans the map: the minimum of one axis moves. *)
Pan ==
    /\ phase = "idle"
    /\ \E dx \in {-1, 0, 1}, dy \in {-1, 0, 1} :
          /\ (dx = 0) # (dy = 0)
          /\ xAxis.min + dx >= 0 /\ yAxis.min + dy >= 0
          /\ xAxis.min + dx + yAxis.min + dy <= MaxPan
          /\ xAxis' = [xAxis EXCEPT !.min = @ + dx]
          /\ yAxis' = [yAxis EXCEPT !.min = @ + dy]
    /\ sinceFull' = IF sinceFull = "other" THEN "other" ELSE "pan"
    /\ lastMode' = "none"
    /\ unchangedSince' = FALSE
    /\ repeated' = FALSE
    /\ UNCHANGED <<points, baseTrans, isDirtyData, isResizing, isVML,
                   transformGroup, phase, tMode, prevGeom>>

(* The user zooms: transA and minPixelPadding of the axes change. *)
Zoom ==
    /\ phase = "idle"
    /\ \E z \in ZoomLevels :
          /\ z.tx # xAxis.transA \/ z.ty # yAxis.transA
          /\ xAxis' = [xAxis EXCEPT !.transA = z.tx,
                                    !.minPixelPadding = z.px]
          /\ yAxis' = [yAxis EXCEPT !.transA = z.ty,
                                    !.minPixelPadding = z.py]
    /\ sinceFull' = "other"
    /\ lastMode' = "none"
    /\ unchangedSince' = FALSE
    /\ repeated' = FALSE
    /\ UNCHANGED <<points, baseTrans, isDirtyData, isResizing, isVML,
                   transformGroup, phase, tMode, prevGeom>>

(* The data of the series is marked dirty (setData, addPoint, update). *)
MarkDirty ==
    /\ phase = "idle"
    /\ ~isDirtyData
    /\ isDirtyData' = TRUE
    /\ unchangedSince' = FALSE
    /\ repeated' = FALSE
    /\ UNCHANGED <<xAxis, yAxis, points, baseTrans, isResizing, isVML,
                   transformGroup, phase, tMode, lastMode, sinceFull,
                   prevGeom>>

(* The chart starts or ends resizing. *)
ToggleResizing ==
    /\ phase = "idle"
    /\ isResizing' = ~isResizing
    /\ unchangedSince' = FALSE
    /\ repeated' = FALSE
    /\ UNCHANGED <<xAxis, yAxis, points, baseTrans, isDirtyData, isVML,
                   transformGroup, phase, tMode, lastMode, sinceFull,
                   prevGeom>>

-----------------------------------------------------------------------------
(* Stock compare: Series.initCompare, modifyValue, processData             *)

Undefined == [def |-> FALSE, v |-> 0]
Defined(v) == [def |-> TRUE, v |-> v]
UndefinedFlag == [def |-> FALSE, v |-> FALSE]

(* A y value of the processed data: a number or null. *)
Null == [num |-> FALSE, v |-> 0]
Number(v) == [num |-> TRUE, v |-> v]

(* A variant of the closure that takes the base off when compareBase is    *)
(* 100.                                                                    *)
modifyValueBaseSwapped(mode, opts, cv, value) ==
    IF value.def /\ cv.def
    THEN IF mode = "value"
         THEN RInt(value.v - cv.v)
         ELSE RSub(RMul(RInt(100), RDiv(RInt(value.v), RInt(cv.v))),
                   IF opts.compareBase.def /\ opts.compareBase.v = 100
                   THEN RInt(100) ELSE RInt(0))
    ELSE RInt(0)

(* The closure initCompare installs as series.modifyValue: the value it    *)
(* returns.                                                                *)
modifyValue(mode, opts, cv, value) ==
    IF value.def /\ cv.def
    THEN IF mode = "value"
         THEN RInt(value.v - cv.v)
         ELSE RSub(RMul(RInt(100), RDiv(RInt(value.v), RInt(cv.v))),
                   IF opts.compareBase.def /\ opts.compareBase.v = 100
                   THEN RInt(0) ELSE RInt(100))
    ELSE RInt(0)

(* The loop of processData: the index of the first value for comparison,   *)
(* 0 when the loop ends without one.  Indices count from 1 here.           *)
firstCompareIndex(xs, ys, min, opts) ==
    LET compareStart == IF opts.compareStart.def /\ opts.compareStart.v
                        THEN 0 ELSE 1
        hits == {i \in 1..(Len(ys) - compareStart) :
                    /\ ys[i].num
                    /\ xs[i + compareStart] >= min
                    /\ ys[i].v # 0}
    IN  IF hits = {} THEN 0
        ELSE CHOOSE i \in hits : \A j \in hits : i <= j

(* Bound of the number of processed points. *)
MaxPoints == 2

YValues == {Null, Number(0), Number(50), Number(75)}

ProcessedDatas ==
    UNION {[1..n -> YValues] : n \in 0..MaxPoints}

XOf(ys) == [i \in 1..Len(ys) |-> i]

CompareModes == {"undefined", "value", "percent", "absolute"}

CompareArgs == {Undefined, Defined(50), Defined(75)}

CompareInit ==
    /\ \E m \in CompareModes :
          /\ compare = m
          /\ hasModifyValue = (m = "value" \/ m = "percent")
    /\ \E cb \in {Undefined, Defined(100)},
          cs \in {UndefinedFlag, Defined(TRUE)} :
          options = [compareBase |-> cb, compareStart |-> cs]
    /\ compareValue = Undefined
    /\ processedXData = << >>
    /\ processedYData = << >>
    /\ xAxisMin = 0
    /\ cOp = "init"
    /\ cArg = Undefined
    /\ cRet = RInt(0)
    /\ cChange = [def |-> FALSE, v |-> RInt(0)]

(* series.initCompare(compare), from init and setCompare. *)
InitCompare ==
    /\ \E m \in CompareModes :
          /\ compare' = m
          /\ hasModifyValue' = (m = "value" \/ m = "percent")
    /\ cOp' = "init"
    /\ cArg' = Undefined
    /\ cRet' = RInt(0)
    /\ cChange' = [def |-> FALSE, v |-> RInt(0)]
    /\ UNCHANGED <<options, compareValue, processedXData, processedYData,
                   xAxisMin>>

(* series.modifyValue(value, point), where the series has one. *)
ModifyValue ==
    /\ hasModifyValue
    /\ \E value \in CompareArgs, withPoint \in BOOLEAN :
          /\ cArg' = value
          /\ cRet' = modifyValue(compare, options, compareValue, value)
          /\ cChange' = IF withPoint /\ value.def /\ compareValue.def
                        THEN [def |-> TRUE, v |-> cRet']
                        ELSE [def |-> FALSE, v |-> RInt(0)]
    /\ cOp' = "modify"
    /\ UNCHANGED <<compare, hasModifyValue, options, compareValue,
                   processedXData, processedYData, xAxisMin>>

(* series.processData(): the base method leaves the processed data, then   *)
(* the first value for comparison is looked for.                           *)
ProcessData ==
    /\ \E ys \in ProcessedDatas :
          /\ processedYData' = ys
          /\ processedXData' = XOf(ys)
          /\ LET i == firstCompareIndex(XOf(ys), ys, xAxisMin, options)
             IN  compareValue' = IF i = 0 THEN compareValue
                                 ELSE Defined(ys[i].v)
    /\ cOp' = "process"
    /\ cArg' = Undefined
    /\ cRet' = RInt(0)
    /\ cChange' = [def |-> FALSE, v |-> RInt(0)]
    /\ UNCHANGED <<compare, hasModifyValue, options, xAxisMin>>

(* The visible range of the x axis moves. *)
SetExtremes ==
    /\ \E m \in 0..(MaxPoints + 1) :
          /\ m # xAxisMin
          /\ xAxisMin' = m
    /\ cOp' = "extremes"
    /\ cArg' = Undefined
    /\ cRet' = RInt(0)
    /\ cChange' = [def |-> FALSE, v |-> RInt(0)]
    /\ UNCHANGED <<compare, hasModifyValue, options, compareValue,
                   processedXData, processedYData>>

-----------------------------------------------------------------------------
(* Column pyramid: ColumnPyramidSeries.translate                           *)

VARIABLES
    (* the chart and series values translate reads, the points it loops    *)
    (* over with what it writes on them, and whether it has run            *)
    pyChart, pyPoints, pyDone

pyrVars == <<pyChart, pyPoints, pyDone>>

(* JavaScript numbers that may leave the finite range: <<n, d>> with d > 0 *)
(* is the rational n/d, <<0, 0>> is NaN, <<1, 0>> and <<-1, 0>> are        *)
(* Infinity and -Infinity.                                                 *)
NaN == <<0, 0>>
Finite(a) == a[2] # 0
Sign(n) == IF n > 0 THEN 1 ELSE IF n < 0 THEN -1 ELSE 0

JNeg(a) == <<-a[1], a[2]>>

JAdd(a, b) ==
    IF Finite(a) /\ Finite(b) THEN RAdd(a, b)
    ELSE IF a = NaN \/ b = NaN THEN NaN
    ELSE IF Finite(a) THEN b
    ELSE IF Finite(b) THEN a
    ELSE IF a = b THEN a ELSE NaN

JSub(a, b) == JAdd(a, JNeg(b))

JMul(a, b) ==
    IF Finite(a) /\ Finite(b) THEN RMul(a, b)
    ELSE IF a = NaN \/ b = NaN \/ a[1] = 0 \/ b[1] = 0 THEN NaN
    ELSE <<Sign(a[1]) * Sign(b[1]), 0>>

JDiv(a, b) ==
    IF Finite(a) /\ Finite(b)
    THEN IF b[1] # 0 THEN RDiv(a, b)
         ELSE IF a[1] = 0 THEN NaN ELSE <<Sign(a[1]), 0>>
    ELSE IF a = NaN \/ b = NaN \/ (~Finite(a) /\ ~Finite(b)) THEN NaN
    ELSE IF Finite(a) THEN RInt(0)
    ELSE <<Sign(a[1]) * (IF b[1] < 0 THEN -1 ELSE 1), 0>>


(* clamp(value, min, max) *)
clamp(v, lo, hi) == IF RLt(lo, v) THEN (IF RLt(v, hi) THEN v ELSE hi) ELSE lo

NoShape ==
    [def |-> FALSE, stackHeight |-> RInt(0), topXwidth |-> RInt(0),
     bottomXwidth |-> RInt(0), x |-> RInt(0), y |-> RInt(0),
     width |-> RInt(0), height |-> RInt(0), d |-> << >>]

(* The body of the points.forEach of translate for one point: the locals  *)
(* stackHeight, topXwidth, bottomXwidth as they are when shapeArgs is      *)
(* written, and shapeArgs.  ch.threshold is the pixel yAxis.getThreshold   *)
(* returned, pt.plotX, pt.plotY, pt.yBottom are what the column translate  *)
(* left on the point, pt.topPointY is the pixel yAxis.toPixels returned    *)
(* for the stack total.                                                    *)
pyramidShape(ch, pt) ==
    LET translatedThreshold ==
            IF ch.inverted THEN RSub(ch.threshold, <<1, 2>>)
            ELSE ch.threshold
        yBottom == IF pt.yBottomDef THEN pt.yBottom ELSE translatedThreshold
        safeDistance == RAdd(RInt(999), RAbs(yBottom))
        plotY == clamp(pt.plotY, JNeg(safeDistance),
                       RAdd(RInt(ch.yAxisLen), safeDistance))
        barX == RAdd(pt.plotX, ch.pointXOffset)
        barW == RDiv(ch.seriesBarW, RInt(2))
        barY == RMin(plotY, yBottom)
        barH == RSub(RMax(plotY, yBottom), barY)
        mpl == RInt(ch.minPointLength)
        topPointY == pt.topPointY
        sh1 == RSub(RSub(RInt(ch.plotHeight), topPointY),
                    RSub(RInt(ch.plotHeight), translatedThreshold))
        top1 == IF sh1[1] # 0
                THEN JDiv(RMul(barW, RSub(barY, topPointY)), sh1)
                ELSE RInt(0)
        bot1 == IF sh1[1] # 0
                THEN JDiv(RMul(barW, RSub(RAdd(barY, barH), topPointY)),
                          sh1)
                ELSE RInt(0)
        invBarPos == RSub(RInt(ch.yAxisWidth), barY)
        sh2 == RSub(topPointY,
                    RSub(RInt(ch.yAxisWidth), translatedThreshold))
        top2 == JDiv(RMul(barW, RSub(topPointY, invBarPos)), sh2)
        bot2 == JDiv(RMul(barW, RSub(topPointY, RSub(invBarPos, barH))),
                     sh2)
        sh == IF ch.inverted THEN sh2 ELSE sh1
        top == IF ch.inverted THEN top2 ELSE top1
        bot == IF ch.inverted THEN bot2 ELSE bot1
        x1 == IF ch.inverted THEN JAdd(RAdd(barX, barW), top)
              ELSE JAdd(JSub(barX, top), barW)
        x2 == IF ch.inverted THEN JSub(x1, JMul(RInt(2), top))
              ELSE JAdd(JAdd(barX, top), barW)
        x3 == IF ch.inverted THEN JAdd(JSub(barX, bot), barW)
              ELSE JAdd(JAdd(barX, bot), barW)
        x4 == IF ch.inverted THEN JAdd(JAdd(barX, bot), barW)
              ELSE JAdd(JSub(barX, bot), barW)
        y1 == IF ch.inverted THEN barY
              ELSE IF pt.yNeg THEN barY ELSE RSub(barY, mpl)
        y2 == IF ch.inverted
              THEN IF pt.yNeg THEN RAdd(RAdd(barY, barH), mpl)
                   ELSE RSub(RAdd(barY, barH), mpl)
              ELSE IF pt.yNeg THEN RAdd(RAdd(barY, barH), mpl)
                   ELSE RAdd(barY, barH)
    IN  [def |-> TRUE, stackHeight |-> sh, topXwidth |-> top,
         bottomXwidth |-> bot, x |-> x1, y |-> y1, width |-> JSub(x2, x1),
         height |-> barH,
         d |-> <<Seg("M", <<x1, y1>>), Seg("L", <<x2, y1>>),
                 Seg("L", <<x3, y2>>), Seg("L", <<x4, y2>>),
                 Seg("Z", << >>)>>]

(* A variant of the stack total that adds the threshold to -100 or 100. *)
stackTotalAddsThreshold(threshold, stacking, total, y) ==
    IF stacking = "percent"
    THEN threshold + (IF y < 0 THEN -100 ELSE 100)
    ELSE threshold + (IF total # 0 THEN total ELSE y)

(* The local stackTotal of the points.forEach of translate: threshold +    *)
(* (point.total || point.y), overwritten with stacking 'percent' by        *)
(* (threshold + (point.y < 0)) ? -100 : 100, where the sum of the          *)
(* threshold and the comparison (true counts 1, false 0) is the condition. *)
(* A total of 0 stands for a total that is not set as well.                *)
stackTotal(threshold, stacking, total, y) ==
    IF stacking = "percent"
    THEN IF threshold + (IF y < 0 THEN 1 ELSE 0) # 0 THEN -100 ELSE 100
    ELSE threshold + (IF total # 0 THEN total ELSE y)

(* Bound of the number of points of the pyramid series. *)
MaxPyramidPoints == 1

PyramidCharts ==
    [inverted : BOOLEAN, threshold : {RInt(100), RInt(60)},
     yAxisLen : {PlotLen}, yAxisWidth : {PlotLen}, plotHeight : {PlotLen},
     seriesBarW : {RInt(10)}, pointXOffset : {RInt(0)},
     minPointLength : {0, 5},
     optThreshold : {0, -1}, stacking : {"percent", "normal"}]

PyramidPointIns ==
    {p \in [plotX : {RInt(20)}, plotY : {RInt(100), RInt(60), RInt(40)},
            yBottomDef : BOOLEAN, yBottom : {RInt(100)}, yNeg : BOOLEAN,
            y : {-3, 0, 4}, total : {0, 100},
            topPointY : {RInt(100), RInt(60), RInt(40), <<1, 2>>},
            shapeArgs : {NoShape}, stackTotal : {0}] :
        p.yNeg = (p.y < 0)}

PyramidInit ==
    /\ pyChart \in PyramidCharts
    /\ pyPoints \in UNION {[1..n -> PyramidPointIns] :
                              n \in 1..MaxPyramidPoints}
    /\ pyDone = FALSE

(* series.translate() of a column pyramid series. *)
PyramidTranslate ==
    /\ ~pyDone
    /\ pyPoints' = [i \in 1..Len(pyPoints) |->
                       [pyPoints[i] EXCEPT
                           !.shapeArgs = pyramidShape(pyChart, pyPoints[i]),
                           !.stackTotal =
                               stackTotal(pyChart.optThreshold,
                                          pyChart.stacking,
                                          pyPoints[i].total,
                                          pyPoints[i].y)]]
    /\ pyDone' = TRUE
    /\ UNCHANGED pyChart

PyramidIdle ==
    pyChart = [inverted |-> FALSE] /\ pyPoints = << >> /\ pyDone = FALSE

-----------------------------------------------------------------------------
(* Timeline: play, rewind, playPaths and pause, with the timeline paths    *)
(* seen from the timeline                                                  *)

VARIABLES
    tlPaths,        \* timeline.paths: the groups of path ids
    tlCursor,       \* timeline.cursor
    pathsPlaying,   \* keys of timeline.pathsPlaying
    tlRuns,         \* the playPaths invocations: curPaths, nextPaths,
                    \* direction and pathsEnded of each closure
    tlTimers,       \* playPath calls pending on the fade-out timeout
    pathOnEnd,      \* the playPaths invocation registered as playOnEnd
    pathCursor,     \* TimelinePath.cursor
    pathDir,        \* direction of the last playEvents of a path
    pathActive,     \* the path has an event playing or scheduled
    tlSignals,      \* playOnEnd / masterOnEnd emitted by the timeline
    tlStarted,      \* paths in the order playPath started them
    tlEnded,        \* paths whose play ended callback has run
    tlHist          \* calls made on the timeline so far

tlVars == <<tlPaths, tlCursor, pathsPlaying, tlRuns, tlTimers, pathOnEnd,
            pathCursor, pathDir, pathActive, tlSignals, tlStarted, tlEnded,
            tlHist>>

MaxGroups == 2
MaxTimelinePlays == 1

(* A path made for options.silentWait has the events 0 and 1. *)
LastEvent == 1

RECURSIVE SumTo(_, _)
SumTo(sz, i) == IF i = 0 THEN 0 ELSE sz[i] + SumTo(sz, i - 1)

(* Groups of the given sizes, the paths numbered in list order. *)
GroupsOf(sz) ==
    [i \in 1..Len(sz) |-> (SumTo(sz, i - 1) + 1)..SumTo(sz, i)]

(* Timelines of up to MaxGroups groups: a group of two paths played        *)
(* together, then a single path, and so on; and one single path.           *)
TimelineShapes ==
    {GroupsOf([i \in 1..n |-> 1 + (i % 2)]) : n \in 0..MaxGroups}
    \cup {GroupsOf(<<1>>)}

AllPaths(ps) == UNION {ps[i] : i \in 1..Len(ps)}

HasGroup(ps, c) == c >= 0 /\ c < Len(ps)

(* splat(this.paths[cursor]) without its falsy entries *)
GroupAt(ps, c) == IF HasGroup(ps, c) THEN ps[c + 1] ELSE {}

(* signalHandler.emitSignal('playOnEnd', d); emitSignal('masterOnEnd', d) *)
emitEnd(t, cancelled) ==
    [t EXCEPT !.sig = [playOnEnd |-> @.playOnEnd + 1,
                       masterOnEnd |-> @.masterOnEnd + 1,
                       cancelled |-> cancelled]]

(* Timeline.playPaths(direction) up to the timeouts it leaves. *)
playPaths(ps, t, dir) ==
    IF Len(ps) = 0 THEN emitEnd(t, FALSE)
    ELSE LET k == Len(t.runs) + 1
         IN  [t EXCEPT
                 !.runs = Append(@,
                     [grp |-> t.cursor, dir |-> dir, pathsEnded |-> 0,
                      size |-> IF HasGroup(ps, t.cursor)
                               THEN Cardinality(GroupAt(ps, t.cursor))
                               ELSE 1,
                      hasNext |-> HasGroup(ps, t.cursor + dir)]),
                 !.timers = @ \cup {[run |-> k, path |-> p] :
                                       p \in GroupAt(ps, t.cursor)}]

(* A variant that is content with one ended path. *)
groupFinishedAny(pathsEnded, size) == pathsEnded >= 1

(* pathsEnded >= curPaths.length *)
groupFinished(pathsEnded, size) == pathsEnded >= size

(* The play ended callback that playPath of invocation k hands to path p. *)
pathEnded(ps, t, k, p, cancelled) ==
    LET r == t.runs[k]
        n == r.pathsEnded + 1
        t1 == [t EXCEPT !.pathsPlaying = @ \ {p},
                        !.runs[k].pathsEnded = n,
                        !.ended = @ \cup {p}]
    IN  IF groupFinished(n, r.size)
        THEN IF r.hasNext /\ ~cancelled
             THEN LET nextPaths == GroupAt(ps, r.grp + r.dir)
                      t2 == [t1 EXCEPT
                                !.cursor = @ + r.dir,
                                !.pcur = [q \in DOMAIN @ |->
                                            IF q \in nextPaths
                                            THEN IF r.dir > 0 THEN 0
                                                 ELSE LastEvent
                                            ELSE @[q]]]
                  IN  playPaths(ps, t2, r.dir)
             ELSE emitEnd(t1, cancelled)
        ELSE t1

NoNextEvent(t, p) == (t.pcur[p] + t.pdir[p]) \notin 0..LastEvent

(* TimelinePath.pause(): clears the scheduled play and cancels the events  *)
(* playing; a cancelled event without next event reports the end of the   *)
(* path as cancelled.                                                      *)
pathPause(ps, t, p) ==
    IF t.pact[p]
    THEN LET t1 == [t EXCEPT !.pact[p] = FALSE]
         IN  IF NoNextEvent(t, p) /\ t.onEnd[p] # 0
             THEN pathEnded(ps, t1, t.onEnd[p], p, TRUE)
             ELSE t1
    ELSE t

RECURSIVE pauseAll(_, _, _)
pauseAll(ps, t, ids) ==
    IF ids = {} THEN t
    ELSE LET p == CHOOSE q \in ids : \A o \in ids : q <= o
         IN  pauseAll(ps, pathPause(ps, t, p), ids \ {p})

(* Timeline.pause() *)
pause(ps, t) ==
    [pauseAll(ps, t, t.pathsPlaying) EXCEPT !.pathsPlaying = {}]

(* playPath(path) of invocation k: onPathStart, pathsPlaying, path.play or *)
(* path.rewind with the play ended callback.                               *)
playPath(ps, t, k, p) ==
    LET t1 == [t EXCEPT !.pathsPlaying = @ \cup {p},
                        !.started = Append(@, p)]
        t2 == pathPause(ps, t1, p)
    IN  [t2 EXCEPT !.onEnd[p] = k, !.pact[p] = TRUE,
                   !.pdir[p] = t.runs[k].dir]

TL ==
    [cursor |-> tlCursor, pathsPlaying |-> pathsPlaying, runs |-> tlRuns,
     timers |-> tlTimers, onEnd |-> pathOnEnd, pcur |-> pathCursor,
     pdir |-> pathDir, pact |-> pathActive, sig |-> tlSignals,
     started |-> tlStarted, ended |-> tlEnded]

SetTL(t) ==
    /\ tlCursor' = t.cursor
    /\ pathsPlaying' = t.pathsPlaying
    /\ tlRuns' = t.runs
    /\ tlTimers' = t.timers
    /\ pathOnEnd' = t.onEnd
    /\ pathCursor' = t.pcur
    /\ pathDir' = t.pdir
    /\ pathActive' = t.pact
    /\ tlSignals' = t.sig
    /\ tlStarted' = t.started
    /\ tlEnded' = t.ended

NoHist ==
    [plays |-> 0, forward |-> TRUE, pauses |-> 0, paused |-> FALSE,
     pending |-> FALSE, cursor |-> 0, pcur |-> << >>]

TimelineStart(ps) ==
    /\ tlPaths = ps
    /\ tlCursor = 0
    /\ pathsPlaying = {}
    /\ tlRuns = << >>
    /\ tlTimers = {}
    /\ pathOnEnd = [p \in AllPaths(ps) |-> 0]
    /\ pathCursor = [p \in AllPaths(ps) |-> 0]
    /\ pathDir = [p \in AllPaths(ps) |-> 1]
    /\ pathActive = [p \in AllPaths(ps) |-> FALSE]
    /\ tlSignals = [playOnEnd |-> 0, masterOnEnd |-> 0, cancelled |-> FALSE]
    /\ tlStarted = << >>
    /\ tlEnded = {}
    /\ tlHist = NoHist

(* new Timeline(options) *)
TimelineInit == \E ps \in TimelineShapes : TimelineStart(ps)

TimelineIdle == TimelineStart(<< >>)

(* timeline.play(onEnd) / timeline.rewind(onEnd) *)
TimelinePlay ==
    /\ tlHist.plays < MaxTimelinePlays
    /\ \E dir \in {1, -1} :
          /\ SetTL(playPaths(tlPaths, pause(tlPaths, TL), dir))
          /\ tlHist' = [tlHist EXCEPT !.plays = @ + 1, !.paused = FALSE,
                                      !.forward = @ /\ dir = 1]
    /\ UNCHANGED tlPaths

(* timeline.pause() *)
TimelinePause ==
    /\ tlHist.plays > 0 /\ ~tlHist.paused
    /\ SetTL(pause(tlPaths, TL))
    /\ tlHist' = [tlHist EXCEPT !.pauses = 1, !.paused = TRUE,
                                !.pending = tlTimers # {},
                                !.cursor = tlCursor, !.pcur = pathCursor]
    /\ UNCHANGED tlPaths

(* The fade-out timeout of playPaths expires: playPath(path). *)
TimerFire ==
    /\ \E tm \in tlTimers :
          SetTL(playPath(tlPaths, [TL EXCEPT !.timers = @ \ {tm}],
                         tm.run, tm.path))
    /\ UNCHANGED <<tlPaths, tlHist>>

(* playEvents of a path moves the path cursor on to its next event. *)
PathNext ==
    /\ \E p \in AllPaths(tlPaths) :
          /\ pathActive[p] /\ ~NoNextEvent(TL, p)
          /\ pathCursor' = [pathCursor EXCEPT ![p] = @ + pathDir[p]]
    /\ UNCHANGED <<tlPaths, tlCursor, pathsPlaying, tlRuns, tlTimers,
                   pathOnEnd, pathDir, pathActive, tlSignals, tlStarted,
                   tlEnded, tlHist>>

(* The event without next event of a path ends: the path emits playOnEnd. *)
PathEnd ==
    /\ \E p \in AllPaths(tlPaths) :
          /\ pathActive[p] /\ NoNextEvent(TL, p) /\ pathOnEnd[p] # 0
          /\ SetTL(pathEnded(tlPaths, [TL EXCEPT !.pact[p] = FALSE],
                             pathOnEnd[p], p, FALSE))
    /\ UNCHANGED <<tlPaths, tlHist>>

-----------------------------------------------------------------------------
(* TimelinePath: play and playEvents with events of given durations        *)

VARIABLES
    events,         \* timelinePath.events: time and duration of each event
    evVeto,         \* the event (if any) whose onEventStart returns false
    evCursor,       \* timelinePath.cursor
    eventsPlaying,  \* remaining duration of the events playing (-1: not)
    nextScheduledPlay,  \* time left on the scheduled playEvents (-1: none)
    evSignals,      \* masterOnEnd / playOnEnd emitted by the path
    evCalled        \* play has been called

evVars == <<events, evVeto, evCursor, eventsPlaying, nextScheduledPlay,
            evSignals, evCalled>>

MaxEvents == 2
MaxDuration == 3

(* Events sorted by time: the first at time 0, each next one 0 to 2 ms     *)
(* later; a duration of 0 is an event without eventObject, which ends      *)
(* within play.                                                            *)
RECURSIVE TimesOf(_, _)
TimesOf(gaps, i) == IF i = 0 THEN 0 ELSE gaps[i] + TimesOf(gaps, i - 1)

EventPlans ==
    UNION {{[i \in 1..n |-> [time |-> TimesOf(g, i - 1), dur |-> d[i]]] :
               g \in [1..(n - 1) -> 0..2], d \in [1..n -> 0..MaxDuration]} :
           n \in 1..MaxEvents}

Playing(e) == {i \in DOMAIN e.playing : e.playing[i] >= 0}

(* onEnd of playEvents: masterOnEnd and playOnEnd, with what the path      *)
(* still holds at that moment.                                             *)
emitPathEnd(e, cancelled) ==
    [e EXCEPT !.sig = [count |-> @.count + 1, cancelled |-> cancelled,
                       playing |-> Playing(e),
                       scheduled |-> e.sched >= 0]]

(* The onEnd handed to curEvent.play: nextEvent is that of the playEvents  *)
(* call which started event i.                                             *)
eventOnEnd(e, i, n) ==
    LET e1 == [e EXCEPT !.playing[i] = -1]
    IN  IF i + 1 > n THEN emitPathEnd(e1, FALSE) ELSE e1

(* TimelinePath.playEvents(1) *)
RECURSIVE playEvents(_, _, _)
playEvents(ev, veto, e) ==
    LET i == e.cursor + 1
        n == Len(ev)
    IN  IF veto = i THEN emitPathEnd(e, TRUE)
        ELSE LET e1 == IF ev[i].dur = 0
                       THEN eventOnEnd([e EXCEPT !.playing[i] = 0], i, n)
                       ELSE [e EXCEPT !.playing[i] = ev[i].dur]
             IN  IF i + 1 <= n
                 THEN IF Abs(ev[i + 1].time - ev[i].time) < 1
                      THEN playEvents(ev, veto,
                                      [e1 EXCEPT !.cursor = @ + 1])
                      ELSE [e1 EXCEPT
                               !.sched = Abs(ev[i + 1].time - ev[i].time)]
                 ELSE e1

EV ==
    [cursor |-> evCursor, playing |-> eventsPlaying,
     sched |-> nextScheduledPlay, sig |-> evSignals]

SetEV(e) ==
    /\ evCursor' = e.cursor
    /\ eventsPlaying' = e.playing
    /\ nextScheduledPlay' = e.sched
    /\ evSignals' = e.sig

NoPathSignal ==
    [count |-> 0, cancelled |-> FALSE, playing |-> {}, scheduled |-> FALSE]

EventsStart(ev, veto) ==
    /\ events = ev
    /\ evVeto = veto
    /\ evCursor = 0
    /\ eventsPlaying = [i \in 1..Len(ev) |-> -1]
    /\ nextScheduledPlay = -1
    /\ evSignals = NoPathSignal
    /\ evCalled = FALSE

(* new TimelinePath(options) *)
EventsInit ==
    \E ev \in EventPlans : \E veto \in 0..Len(ev) : EventsStart(ev, veto)

EventsIdle == EventsStart(<<[time |-> 0, dur |-> 0]>>, 0)

(* timelinePath.play(onEnd) on the new path *)
PathPlay ==
    /\ ~evCalled
    /\ evCalled' = TRUE
    /\ SetEV(playEvents(events, evVeto, EV))
    /\ UNCHANGED <<events, evVeto>>

(* One millisecond passes with no timeout and no event end due. *)
Tick ==
    /\ evCalled
    /\ nextScheduledPlay # 0
    /\ \A i \in DOMAIN eventsPlaying : eventsPlaying[i] # 0
    /\ nextScheduledPlay > 0 \/ Playing(EV) # {}
    /\ nextScheduledPlay' =
          IF nextScheduledPlay > 0 THEN nextScheduledPlay - 1 ELSE -1
    /\ eventsPlaying' = [i \in DOMAIN eventsPlaying |->
                            IF eventsPlaying[i] > 0
                            THEN eventsPlaying[i] - 1 ELSE -1]
    /\ UNCHANGED <<events, evVeto, evCursor, evSignals, evCalled>>

(* The event object of event i has finished and calls onEnd. *)
EventEnd ==
    /\ \E i \in DOMAIN eventsPlaying :
          /\ eventsPlaying[i] = 0
          /\ SetEV(eventOnEnd(EV, i, Len(events)))
    /\ UNCHANGED <<events, evVeto, evCalled>>

(* The timeout of nextScheduledPlay expires. *)
ScheduledPlay ==
    /\ nextScheduledPlay = 0
    /\ SetEV(playEvents(events, evVeto,
                        [EV EXCEPT !.sched = -1, !.cursor = @ + 1]))
    /\ UNCHANGED <<events, evVeto, evCalled>>

-----------------------------------------------------------------------------
(* Point.sonify: the onEnd signal of a point and its instruments           *)

VARIABLES
    snPoint,        \* point.isNull, point.visible, point.series.visible
    snDefs,         \* options.instruments: the instrument id of each
                    \* definition (0: no instrument with a play method)
    snInterrupts,   \* an instrument played while it plays ends its running
                    \* note at once, calling that note's onEnd
    instrumentsPlaying, \* keys of point.sonification.instrumentsPlaying
    snNotes,        \* notes playing: definition and instrument id
    snOnEnd,        \* the point's onEnd signal: times emitted, and whether
                    \* a note was playing when it was emitted
    snCalled        \* sonify has been called

snVars == <<snPoint, snDefs, snInterrupts, instrumentsPlaying, snNotes,
            snOnEnd, snCalled>>

MaxInstruments == 2

emitOnEnd(s) ==
    [s EXCEPT !.onEnd = [count |-> @.count + 1,
                         early |-> @.early \/ s.notes # {}]]

(* onEnd of an instrument definition: the instrument is removed from       *)
(* instrumentsPlaying, and the point's onEnd is emitted when that was the  *)
(* last key.                                                               *)
instrumentOnEnd(s, note) ==
    LET s1 == [s EXCEPT !.notes = @ \ {note},
                        !.playing = @ \ {note.id}]
    IN  IF s1.playing = {} THEN emitOnEnd(s1) ELSE s1

(* options.instruments.forEach of pointSonify, from definition i on. *)
RECURSIVE playInstruments(_, _, _, _)
playInstruments(defs, i, interrupts, s) ==
    IF i > Len(defs) THEN s
    ELSE IF defs[i] = 0 THEN playInstruments(defs, i + 1, interrupts, s)
    ELSE LET note == [def |-> i, id |-> defs[i]]
             running == {o \in s.notes : o.id = defs[i]}
             s1 == [s EXCEPT !.playing = @ \cup {defs[i]},
                             !.notes = @ \cup {note}]
             s2 == IF interrupts /\ running # {}
                   THEN instrumentOnEnd(s1, CHOOSE o \in running : TRUE)
                   ELSE s1
         IN  playInstruments(defs, i + 1, interrupts, s2)

(* pointSonify *)
pointSonify(pt, defs, interrupts, s) ==
    IF pt.isNull \/ ~pt.visible \/ ~pt.seriesVisible
    THEN emitOnEnd(s)
    ELSE playInstruments(defs, 1, interrupts, s)

SN == [playing |-> instrumentsPlaying, notes |-> snNotes, onEnd |-> snOnEnd]

SetSN(s) ==
    /\ instrumentsPlaying' = s.playing
    /\ snNotes' = s.notes
    /\ snOnEnd' = s.onEnd

SonifyPoints ==
    {[isNull |-> n, visible |-> v, seriesVisible |-> sv] :
        n \in BOOLEAN, v \in BOOLEAN, sv \in BOOLEAN}

SonifyDefs == UNION {[1..n -> 0..MaxInstruments] : n \in 0..MaxInstruments}

SonifyStart(pt, defs, interrupts) ==
    /\ snPoint = pt
    /\ snDefs = defs
    /\ snInterrupts = interrupts
    /\ instrumentsPlaying = {}
    /\ snNotes = {}
    /\ snOnEnd = [count |-> 0, early |-> FALSE]
    /\ snCalled = FALSE

SonifyInit ==
    \E pt \in SonifyPoints : \E defs \in SonifyDefs :
        \E interrupts \in BOOLEAN : SonifyStart(pt, defs, interrupts)

SonifyIdle ==
    SonifyStart([isNull |-> FALSE, visible |-> TRUE, seriesVisible |-> TRUE],
                << >>, FALSE)

(* point.sonify(options) *)
PointSonifyCall ==
    /\ ~snCalled
    /\ snCalled' = TRUE
    /\ SetSN(pointSonify(snPoint, snDefs, snInterrupts, SN))
    /\ UNCHANGED <<snPoint, snDefs, snInterrupts>>

(* A note has been played to its end: the instrument calls the onEnd it    *)
(* was given.                                                              *)
InstrumentEnd ==
    /\ \E note \in snNotes : SetSN(instrumentOnEnd(SN, note))
    /\ UNCHANGED <<snPoint, snDefs, snInterrupts, snCalled>>

-----------------------------------------------------------------------------
(* imageToDataUrl: loading an image and reading it back from a canvas      *)

VARIABLES
    imArgs,         \* scale, imageType, whether finallyCallback is given,
                    \* whether successCallback throws
    img,            \* the image: size, crossOrigin set to 'Anonymous'
    taintedHandler, \* "retry" (the first handler) or "taintedCallback"
    imPhase,        \* "idle", "loading", "deferred" (load event seen, the
                    \* timeout pending) or "settled"
    imCanvas,       \* width and height of the last canvas drawn
    imLog           \* the callbacks in the order they were called

imVars == <<imArgs, img, taintedHandler, imPhase, imCanvas, imLog>>

MaxScale == 2

ImageTypes == {"image/png", "image/jpeg"}

ImageArgs ==
    [scale : 1..MaxScale, imageType : ImageTypes, hasFinally : BOOLEAN,
     successThrows : BOOLEAN]

NewImage(anonymous) == [width |-> 4, height |-> 3, crossOrigin |-> anonymous]

finallyBlock(args, m) ==
    IF args.hasFinally
    THEN [m EXCEPT !.log = Append(@, "finallyCallback")]
    ELSE m

(* The call of taintedHandler: first the retry with crossOrigin set to     *)
(* 'Anonymous', after that taintedCallback.                                *)
callTaintedHandler(m) ==
    IF m.taintedHandler = "retry"
    THEN [m EXCEPT !.img = NewImage(TRUE),
                   !.taintedHandler = "taintedCallback",
                   !.phase = "loading"]
    ELSE [m EXCEPT !.log = Append(@, "taintedCallback"),
                   !.phase = "settled"]

(* The function loadHandler defers with setTimeout.  ctx tells whether the *)
(* canvas has a 2d context, readable whether canvas.toDataURL returns.     *)
loadDeferred(args, m, ctx, readable) ==
    LET tried ==
            IF ~ctx
            THEN [m EXCEPT !.log = Append(@, "noCanvasSupportCallback"),
                           !.phase = "settled"]
            ELSE LET m1 == [m EXCEPT
                               !.canvas = [width |-> m.img.width * args.scale,
                                           height |->
                                               m.img.height * args.scale]]
                 IN  IF readable
                     THEN LET m2 == [m1 EXCEPT
                                        !.log = Append(@, "successCallback"),
                                        !.phase = "settled"]
                          IN  IF args.successThrows
                              THEN callTaintedHandler(m2)
                              ELSE m2
                     ELSE callTaintedHandler(m1)
    IN  finallyBlock(args, tried)

(* errorHandler *)
errorHandler(args, m) ==
    finallyBlock(args, [m EXCEPT !.log = Append(@, "failedLoadCallback"),
                                 !.phase = "settled"])

IM ==
    [img |-> img, taintedHandler |-> taintedHandler, phase |-> imPhase,
     canvas |-> imCanvas, log |-> imLog]

SetIM(m) ==
    /\ img' = m.img
    /\ taintedHandler' = m.taintedHandler
    /\ imPhase' = m.phase
    /\ imCanvas' = m.canvas
    /\ imLog' = m.log

ImageStart(args) ==
    /\ imArgs = args
    /\ img = NewImage(FALSE)
    /\ taintedHandler = "retry"
    /\ imPhase = "idle"
    /\ imCanvas = [width |-> 0, height |-> 0]
    /\ imLog = << >>

ImageInit == \E args \in ImageArgs : ImageStart(args)

ImageIdle ==
    ImageStart([scale |-> 1, imageType |-> "image/png",
                hasFinally |-> FALSE, successThrows |-> FALSE])

(* imageToDataUrl(...): the handlers are set and img.src is assigned. *)
ImageToDataUrl ==
    /\ imPhase = "idle"
    /\ imPhase' = "loading"
    /\ UNCHANGED <<imArgs, img, taintedHandler, imCanvas, imLog>>

(* img.onload: loadHandler sets the timeout. *)
ImageLoaded ==
    /\ imPhase = "loading"
    /\ imPhase' = "deferred"
    /\ UNCHANGED <<imArgs, img, taintedHandler, imCanvas, imLog>>

(* img.onerror: errorHandler. *)
ImageFailed ==
    /\ imPhase = "loading"
    /\ SetIM(errorHandler(imArgs, IM))
    /\ UNCHANGED imArgs

(* The timeout of loadHandler expires. *)
LoadDeferred ==
    /\ imPhase = "deferred"
    /\ \E ctx \in BOOLEAN : \E readable \in BOOLEAN :
          SetIM(loadDeferred(imArgs, IM, ctx, readable))
    /\ UNCHANGED imArgs

-----------------------------------------------------------------------------
(* Forced markers: the render handler of the accessibility module          *)

VARIABLES
    fmForce,     \* what shouldForceMarkers(series) returns
    fmSeries,    \* series.options.marker, a11yMarkersForced,
                 \* resetA11yMarkerOptions, _hasPointMarkers
    fmPoints,    \* of each point: options.marker and hasForcedA11yMarker
    fmRenders,   \* the render events since the last change of an option
    fmChanged    \* an option has changed since the chart was made

fmVars == <<fmForce, fmSeries, fmPoints, fmRenders, fmChanged>>

(* Bounds of the number of points and of consecutive render events. *)
MaxMarkerPoints == 2
MaxRenders == 3

(* merge(true, options, {marker: {enabled: true,                           *)
(*                                states: {normal: {opacity: 0}}}})        *)
forceZeroOpacityMarkerOptions(o) ==
    [o EXCEPT !.marker = TRUE, !.enabled = "true", !.opacity = "0"]

(* states && states.normal && states.normal.opacity *)
getPointMarkerOpacity(o) == o.opacity

(* opacity: getPointMarkerOpacity(pointOptions) || 1 *)
unforcePointMarkerOptions(o) ==
    [o EXCEPT !.opacity = IF getPointMarkerOpacity(o) \in {"undefined", "0"}
                          THEN "1" ELSE getPointMarkerOpacity(o)]

(* The body of the loop of handleForcePointMarkers for one point. *)
handleForcePointMarker(pt) ==
    LET hadForcedMarker == pt.hasForcedA11yMarker = "true"
        p0 == [pt EXCEPT !.hasForcedA11yMarker = "undefined"]
        isStillForcedMarker ==
            hadForcedMarker /\ getPointMarkerOpacity(pt) = "0"
    IN  IF ~pt.marker THEN p0
        ELSE IF pt.enabled = "true" /\ ~isStillForcedMarker
        THEN [unforcePointMarkerOptions(p0) EXCEPT
                 !.hasForcedA11yMarker = "false"]
        ELSE IF pt.enabled = "false"
        THEN [forceZeroOpacityMarkerOptions(p0) EXCEPT
                 !.hasForcedA11yMarker = "true"]
        ELSE p0

handleForcePointMarkers(pts) ==
    [i \in 1..Len(pts) |-> handleForcePointMarker(pts[i])]

hasIndividualPointMarkerOptions(s, pts) ==
    s.hasPointMarkers /\ Len(pts) > 0

(* merge(true, series.options, {marker: {enabled: reset.enabled,           *)
(*     states: {normal: {opacity: reset.states.normal.opacity}}}})         *)
unforceSeriesMarkerOptions(s) ==
    [s EXCEPT !.marker = TRUE, !.enabled = s.resetEnabled,
              !.opacity = s.resetOpacity]

(* The handler of the render event of a series. *)
renderSeries(force, s, pts) ==
    IF force
    THEN [series |-> IF s.marker /\ s.enabled = "false"
                     THEN [forceZeroOpacityMarkerOptions(s) EXCEPT
                              !.a11yMarkersForced = TRUE]
                     ELSE s,
          points |-> IF hasIndividualPointMarkerOptions(s, pts)
                     THEN handleForcePointMarkers(pts) ELSE pts]
    ELSE IF s.a11yMarkersForced
    THEN [series |-> [unforceSeriesMarkerOptions(s) EXCEPT
                         !.a11yMarkersForced = FALSE],
          points |-> pts]
    ELSE [series |-> s, points |-> pts]

(* The marker options a user can give: none, or enabled and the opacity of *)
(* the normal state, each of them given or not.                            *)
MarkerOptions ==
    {[marker |-> FALSE, enabled |-> "undefined", opacity |-> "undefined"]}
    \cup [marker : {TRUE}, enabled : {"true", "false", "undefined"},
          opacity : {"undefined", "0", "0.5"}]

(* A point as the chart made it; own keeps the marker options the user     *)
(* gave it.                                                                *)
MarkerPoint(o) ==
    [marker |-> o.marker, enabled |-> o.enabled, opacity |-> o.opacity,
     hasForcedA11yMarker |-> "undefined", own |-> o]

(* A series after afterSetOptions: resetA11yMarkerOptions holds the marker *)
(* options of the user.                                                    *)
MarkerSeries(o, pointMarkers) ==
    [marker |-> o.marker, enabled |-> o.enabled, opacity |-> o.opacity,
     a11yMarkersForced |-> FALSE, resetEnabled |-> o.enabled,
     resetOpacity |-> o.opacity, hasPointMarkers |-> pointMarkers]

MarkersInit ==
    /\ fmForce \in BOOLEAN
    /\ \E o \in MarkerOptions, pm \in BOOLEAN :
          fmSeries = MarkerSeries(o, pm)
    /\ \E n \in 1..MaxMarkerPoints,
          os \in [1..MaxMarkerPoints -> MarkerOptions] :
          fmPoints = [i \in 1..n |-> MarkerPoint(os[i])]
    /\ fmRenders = 0
    /\ fmChanged = FALSE

MarkersIdle ==
    /\ fmForce = FALSE
    /\ fmSeries = MarkerSeries([marker |-> FALSE, enabled |-> "undefined",
                                opacity |-> "undefined"], FALSE)
    /\ fmPoints = << >>
    /\ fmRenders = 0
    /\ fmChanged = FALSE

(* The series renders: the handler of its render event runs. *)
RenderSeries ==
    /\ fmRenders < MaxRenders
    /\ LET r == renderSeries(fmForce, fmSeries, fmPoints)
       IN  /\ fmSeries' = r.series
           /\ fmPoints' = r.points
    /\ fmRenders' = fmRenders + 1
    /\ UNCHANGED <<fmForce, fmChanged>>

(* An accessibility option changes, and with it what shouldForceMarkers    *)
(* returns.                                                                *)
SetAccessibility ==
    /\ ~fmChanged
    /\ fmRenders > 0
    /\ fmForce' = ~fmForce
    /\ fmChanged' = TRUE
    /\ fmRenders' = 0
    /\ UNCHANGED <<fmSeries, fmPoints>>

-----------------------------------------------------------------------------
(* Local export: exportChartLocal and getSVGForLocalExport                 *)

VARIABLES
    exEnv,      \* H.isMS, the merged exporting options, and whether the
                \* SVG of the chart holds a foreignObject
    exImages,   \* the image elements of the chart, by the kind of href
    exRun,      \* the locals of getSVGForLocalExport and the conversions
                \* and download in flight
    exLog       \* the calls made so far, in order

exVars == <<exEnv, exImages, exRun, exLog>>

(* Bound of the number of image elements of the chart. *)
MaxImages == 2

(* An image element by its href: a data URL, the URL of an external file,  *)
(* a blank href, or no href attribute at all (getAttribute returns null).  *)
ImageKinds == {"data", "external", "blank", "none"}

NotStarted ==
    [phase |-> "idle", imagesLength |-> 0, imagesEmbedded |-> 0,
     pending |-> {}, failed |-> {}, download |-> "none"]

(* The result of a callback: the log and whether it threw. *)
Did(log, what) == [log |-> Append(log, what), threw |-> FALSE]
Threw(log, what) == [log |-> Append(log, what), threw |-> TRUE]

(* The closure fallbackToExportServer of exportChartLocal. *)
fallbackToExportServer(env, log) ==
    IF env.fallbackToExportServer = "false"
    THEN IF env.hasError THEN Did(log, "options.error")
         ELSE Threw(log, "error28")
    ELSE Did(log, "exportChart")

(* The closure svgSuccess of exportChartLocal. *)
svgSuccess(env, log) ==
    IF /\ env.foreignObject
       /\ env.type # "image/svg+xml"
       /\ (env.isMS \/ env.type = "application/pdf")
    THEN fallbackToExportServer(env, log)
    ELSE Did(log, "downloadSVGLocal")

(* The callbacks exportChartLocal hands to getSVGForLocalExport. *)
successCallback(env, log) == svgSuccess(env, Append(log, "successCallback"))
failCallback(env, log) ==
    fallbackToExportServer(env, Append(log, "failCallback"))

(* The closure hasExternalImages of exportChartLocal: [].some over the     *)
(* images, where href.indexOf throws for an image without a href.          *)
RECURSIVE hasExternalImages(_)
hasExternalImages(images) ==
    IF images = << >> THEN "false"
    ELSE IF Head(images) = "none" THEN "throws"
    ELSE IF Head(images) = "external" THEN "true"
    ELSE hasExternalImages(Tail(images))

(* checkDone of getSVGForLocalExport *)
checkDone(env, run, log) ==
    IF run.imagesEmbedded = run.imagesLength
    THEN successCallback(env, log)
    ELSE [log |-> log, threw |-> FALSE]

(* The for loop of getSVGForLocalExport from image i on: an image with a   *)
(* href starts a conversion, an image without is counted, removed and      *)
(* followed by checkDone.  The loop ends when a callback throws.           *)
RECURSIVE embedImages(_, _, _, _, _)
embedImages(env, images, i, run, log) ==
    IF i > Len(images) THEN [run |-> run, log |-> log, threw |-> FALSE]
    ELSE IF images[i] \in {"data", "external"}
    THEN embedImages(env, images, i + 1,
                     [run EXCEPT !.pending = @ \cup {i}], log)
    ELSE LET r1 == [run EXCEPT !.imagesEmbedded = @ + 1]
             c == checkDone(env, r1, log)
         IN  IF c.threw THEN [run |-> r1, log |-> c.log, threw |-> TRUE]
             ELSE embedImages(env, images, i + 1, r1, c.log)

(* chart.getSVGForLocalExport(options, chartOptions, failCallback,         *)
(* successCallback): the try block and its catch.                          *)
getSVGForLocalExport(env, images, log0) ==
    LET log == Append(log0, "getSVGForLocalExport")
        run == [NotStarted EXCEPT !.phase = "started",
                                  !.imagesLength = Len(images)]
        tried == IF Len(images) = 0
                 THEN LET s == successCallback(env, log)
                      IN  [run |-> run, log |-> s.log, threw |-> s.threw]
                 ELSE embedImages(env, images, 1, run, log)
    IN  IF tried.threw
        THEN LET f == failCallback(env, tried.log)
             IN  [run |-> [tried.run EXCEPT !.phase =
                              IF f.threw THEN "threw" ELSE "started"],
                  log |-> f.log]
        ELSE [run |-> tried.run, log |-> tried.log]

(* Chart.exportChartLocal(exportingOptions, chartOptions) *)
exportChartLocal(env, images) ==
    LET ext == IF env.type = "application/pdf"
               THEN hasExternalImages(images) ELSE "false"
    IN  IF env.isMS /\ (\/ env.type = "application/pdf"
                        \/ Len(images) > 0 /\ env.type # "image/svg+xml")
        THEN LET f == fallbackToExportServer(env, << >>)
             IN  [run |-> [NotStarted EXCEPT !.phase =
                              IF f.threw THEN "threw" ELSE "returned"],
                  log |-> f.log]
        ELSE IF ext = "throws"
        THEN [run |-> [NotStarted EXCEPT !.phase = "threw"],
              log |-> <<"TypeError">>]
        ELSE IF ext = "true"
        THEN LET f == fallbackToExportServer(env, << >>)
             IN  [run |-> [NotStarted EXCEPT !.phase =
                              IF f.threw THEN "threw" ELSE "returned"],
                  log |-> f.log]
        ELSE getSVGForLocalExport(env, images, << >>)

ExportEnvs ==
    [isMS : BOOLEAN,
     type : {"image/png", "image/svg+xml", "application/pdf"},
     fallbackToExportServer : {"false", "undefined"},
     hasError : BOOLEAN, foreignObject : BOOLEAN]

ExportInit ==
    /\ exEnv \in ExportEnvs
    /\ exImages \in UNION {[1..n -> ImageKinds] : n \in 0..MaxImages}
    /\ exRun = NotStarted
    /\ exLog = << >>

ExportIdle ==
    /\ exEnv = [isMS |-> FALSE, type |-> "image/png",
                fallbackToExportServer |-> "undefined", hasError |-> FALSE,
                foreignObject |-> FALSE]
    /\ exImages = << >>
    /\ exRun = NotStarted
    /\ exLog = << >>

(* chart.exportChartLocal() *)
ExportChartLocal ==
    /\ exRun.phase = "idle"
    /\ LET r == exportChartLocal(exEnv, exImages)
       IN  exRun' = r.run /\ exLog' = r.log
    /\ UNCHANGED <<exEnv, exImages>>

(* An image conversion succeeds: embeddedSuccess. *)
EmbeddedSuccess ==
    /\ \E i \in exRun.pending :
          LET r1 == [exRun EXCEPT !.pending = @ \ {i},
                                  !.imagesEmbedded = @ + 1]
              c == checkDone(exEnv, r1, exLog)
          IN  /\ exRun' = r1
              /\ exLog' = c.log
    /\ UNCHANGED <<exEnv, exImages>>

(* An image conversion fails: imageToDataUrl calls the failCallback it was *)
(* given for a tainted canvas, no canvas support or a failed load.         *)
ConversionFailed ==
    /\ \E i \in exRun.pending :
          /\ exRun' = [exRun EXCEPT !.pending = @ \ {i},
                                    !.failed = @ \cup {i}]
          /\ exLog' = failCallback(exEnv, exLog).log
    /\ UNCHANGED <<exEnv, exImages>>

(* downloadSVGLocal reports a failure through the fail callback it was     *)
(* given, which is fallbackToExportServer.                                 *)
DownloadFailed ==
    /\ exRun.download = "none"
    /\ \E k \in 1..Len(exLog) : exLog[k] = "downloadSVGLocal"
    /\ exRun' = [exRun EXCEPT !.download = "failed"]
    /\ exLog' = fallbackToExportServer(exEnv, exLog).log
    /\ UNCHANGED <<exEnv, exImages>>

-----------------------------------------------------------------------------
(* Specifications *)

coreVars == <<pathVars, joinVars, drawVars, cmpVars>>
extVars == <<boxVars, pyrVars, tlVars, evVars, snVars, imVars>>
moreVars == <<fmVars, exVars>>
vars == <<coreVars, extVars, moreVars>>


DrawIdle ==
    /\ xAxis = IdentityAxis /\ yAxis = IdentityAxis /\ points = << >>
    /\ baseTrans = NoBaseTrans /\ isDirtyData = FALSE
    /\ isResizing = FALSE /\ isVML = FALSE /\ transformGroup = Identity
    /\ phase = "idle" /\ tMode = "none" /\ lastMode = "none"
    /\ sinceFull = "none" /\ prevGeom = << >> /\ unchangedSince = FALSE
    /\ repeated = FALSE

PathIdle ==
    /\ pPath = << >> /\ pRet = << >> /\ pDone = FALSE
    /\ pKind = "array" /\ pThrew = FALSE
    /\ pXAxis = IdentityAxis /\ pYAxis = IdentityAxis

JoinIdle ==
    /\ mapData = << >>
    /\ seriesOpt = [allAreas |-> TRUE, joinByNull |-> FALSE]
    /\ data = << >> /\ box = NoBox /\ dataUsed = << >>
    /\ jThrew = FALSE /\ jCalls = 0 /\ jDirty = FALSE
    /\ hasRendered = FALSE /\ lastIn = << >> /\ okIn = << >>
    /\ jLoaded = FALSE /\ minRange = NoMinRange
    /\ minRangeOption = [x |-> FALSE, y |-> FALSE]

CompareIdle ==
    /\ compare = "undefined" /\ hasModifyValue = FALSE
    /\ options = [compareBase |-> Undefined, compareStart |-> UndefinedFlag]
    /\ compareValue = Undefined
    /\ processedXData = << >> /\ processedYData = << >>
    /\ xAxisMin = 0 /\ cOp = "init" /\ cArg = Undefined
    /\ cRet = RInt(0) /\ cChange = [def |-> FALSE, v |-> RInt(0)]

CoreIdle == PathIdle /\ JoinIdle /\ DrawIdle /\ CompareIdle
ExtIdle ==
    /\ BoxIdle /\ PyramidIdle /\ TimelineIdle /\ EventsIdle
    /\ SonifyIdle /\ ImageIdle
MoreIdle == MarkersIdle /\ ExportIdle

InitPath ==
    PathInit /\ JoinIdle /\ DrawIdle /\ CompareIdle /\ ExtIdle /\ MoreIdle
NextPath ==
    TranslatePathCall
        /\ UNCHANGED <<joinVars, drawVars, cmpVars, extVars, moreVars>>
SpecPath == InitPath /\ [][NextPath]_vars

InitJoin ==
    JoinInit /\ PathIdle /\ DrawIdle /\ CompareIdle /\ ExtIdle /\ MoreIdle
NextJoin ==
    \/ SetData /\ UNCHANGED <<pathVars, drawVars, cmpVars, extVars, moreVars>>
    \/ SetDataThrow
       /\ UNCHANGED <<pathVars, drawVars, cmpVars, extVars, moreVars>>
    \/ GetExtremes
       /\ UNCHANGED <<pathVars, drawVars, cmpVars, extVars, moreVars>>
    \/ Rendered /\ UNCHANGED <<pathVars, drawVars, cmpVars, extVars, moreVars>>
SpecJoin == InitJoin /\ [][NextJoin]_vars

InitDraw ==
    DrawInit /\ PathIdle /\ JoinIdle /\ CompareIdle /\ ExtIdle /\ MoreIdle
NextDraw ==
    \/ Translate
       /\ UNCHANGED <<pathVars, joinVars, cmpVars, extVars, moreVars>>
    \/ DrawPoints
       /\ UNCHANGED <<pathVars, joinVars, cmpVars, extVars, moreVars>>
    \/ EndRedraw
       /\ UNCHANGED <<pathVars, joinVars, cmpVars, extVars, moreVars>>
    \/ Pan /\ UNCHANGED <<pathVars, joinVars, cmpVars, extVars, moreVars>>
    \/ Zoom /\ UNCHANGED <<pathVars, joinVars, cmpVars, extVars, moreVars>>
    \/ MarkDirty
       /\ UNCHANGED <<pathVars, joinVars, cmpVars, extVars, moreVars>>
    \/ ToggleResizing
       /\ UNCHANGED <<pathVars, joinVars, cmpVars, extVars, moreVars>>
SpecDraw == InitDraw /\ [][NextDraw]_vars

InitCompareSpec ==
    CompareInit /\ PathIdle /\ JoinIdle /\ DrawIdle /\ ExtIdle /\ MoreIdle
NextCompare ==
    \/ InitCompare
       /\ UNCHANGED <<pathVars, joinVars, drawVars, extVars, moreVars>>
    \/ ModifyValue
       /\ UNCHANGED <<pathVars, joinVars, drawVars, extVars, moreVars>>
    \/ ProcessData
       /\ UNCHANGED <<pathVars, joinVars, drawVars, extVars, moreVars>>
    \/ SetExtremes
       /\ UNCHANGED <<pathVars, joinVars, drawVars, extVars, moreVars>>
SpecCompare == InitCompareSpec /\ [][NextCompare]_vars

(* The state of the modules a specification leaves alone. *)
OthersIdle(group) ==
    /\ group = "box" \/ BoxIdle
    /\ group = "pyramid" \/ PyramidIdle
    /\ group = "timeline" \/ TimelineIdle
    /\ group = "events" \/ EventsIdle
    /\ group = "sonify" \/ SonifyIdle
    /\ group = "image" \/ ImageIdle

InitBox == BoxInit /\ PathIdle /\ DrawIdle /\ CompareIdle /\ OthersIdle("box")
    /\ MoreIdle
NextBox ==
    GetBoxCall
    /\ UNCHANGED <<pathVars, drawVars, cmpVars, pyrVars, tlVars, evVars,
                 snVars, imVars, moreVars>>
SpecBox == InitBox /\ [][NextBox]_vars

InitPyramid == PyramidInit /\ CoreIdle /\ OthersIdle("pyramid")
    /\ MoreIdle
NextPyramid ==
    PyramidTranslate /\ UNCHANGED <<coreVars, boxVars, tlVars, evVars, snVars,
                                  imVars, moreVars>>
SpecPyramid == InitPyramid /\ [][NextPyramid]_vars

InitTimeline == TimelineInit /\ CoreIdle /\ OthersIdle("timeline")
    /\ MoreIdle
NextTimeline ==
    \/ TimelinePlay /\ UNCHANGED <<coreVars, boxVars, pyrVars, evVars, snVars,
                                 imVars, moreVars>>
    \/ TimelinePause /\ UNCHANGED <<coreVars, boxVars, pyrVars, evVars, snVars,
                                 imVars, moreVars>>
    \/ TimerFire /\ UNCHANGED <<coreVars, boxVars, pyrVars, evVars, snVars,
                                 imVars, moreVars>>
    \/ PathNext /\ UNCHANGED <<coreVars, boxVars, pyrVars, evVars, snVars,
                                 imVars, moreVars>>
    \/ PathEnd /\ UNCHANGED <<coreVars, boxVars, pyrVars, evVars, snVars,
                                 imVars, moreVars>>
SpecTimeline == InitTimeline /\ [][NextTimeline]_vars

InitEvents == EventsInit /\ CoreIdle /\ OthersIdle("events")
    /\ MoreIdle
NextEvents ==
    \/ PathPlay /\ UNCHANGED <<coreVars, boxVars, pyrVars, tlVars, snVars,
                                 imVars, moreVars>>
    \/ Tick /\ UNCHANGED <<coreVars, boxVars, pyrVars, tlVars, snVars,
                                 imVars, moreVars>>
    \/ EventEnd /\ UNCHANGED <<coreVars, boxVars, pyrVars, tlVars, snVars,
                                 imVars, moreVars>>
    \/ ScheduledPlay /\ UNCHANGED <<coreVars, boxVars, pyrVars, tlVars, snVars,
                                 imVars, moreVars>>
SpecEvents == InitEvents /\ [][NextEvents]_vars

InitSonify == SonifyInit /\ CoreIdle /\ OthersIdle("sonify")
    /\ MoreIdle
NextSonify ==
    \/ PointSonifyCall
       /\ UNCHANGED <<coreVars, boxVars, pyrVars, tlVars, evVars, imVars,
                   moreVars>>
    \/ InstrumentEnd
       /\ UNCHANGED <<coreVars, boxVars, pyrVars, tlVars, evVars, imVars,
                   moreVars>>
SpecSonify == InitSonify /\ [][NextSonify]_vars

InitImage == ImageInit /\ CoreIdle /\ OthersIdle("image")
    /\ MoreIdle
NextImage ==
    \/ ImageToDataUrl
       /\ UNCHANGED <<coreVars, boxVars, pyrVars, tlVars, evVars, snVars,
                   moreVars>>
    \/ ImageLoaded
       /\ UNCHANGED <<coreVars, boxVars, pyrVars, tlVars, evVars, snVars,
                   moreVars>>
    \/ ImageFailed
       /\ UNCHANGED <<coreVars, boxVars, pyrVars, tlVars, evVars, snVars,
                   moreVars>>
    \/ LoadDeferred
       /\ UNCHANGED <<coreVars, boxVars, pyrVars, tlVars, evVars, snVars,
                   moreVars>>
SpecImage == InitImage /\ [][NextImage]_vars

InitMarkers == MarkersInit /\ CoreIdle /\ ExtIdle /\ ExportIdle
NextMarkers ==
    \/ RenderSeries /\ UNCHANGED <<coreVars, extVars, exVars>>
    \/ SetAccessibility /\ UNCHANGED <<coreVars, extVars, exVars>>
SpecMarkers == InitMarkers /\ [][NextMarkers]_vars

InitExport == ExportInit /\ CoreIdle /\ ExtIdle /\ MarkersIdle
NextExport ==
    \/ ExportChartLocal /\ UNCHANGED <<coreVars, extVars, fmVars>>
    \/ EmbeddedSuccess /\ UNCHANGED <<coreVars, extVars, fmVars>>
    \/ ConversionFailed /\ UNCHANGED <<coreVars, extVars, fmVars>>
    \/ DownloadFailed /\ UNCHANGED <<coreVars, extVars, fmVars>>
SpecExport == InitExport /\ [][NextExport]_vars

-----------------------------------------------------------------------------
(* Properties of the data join (SpecJoin) *)

(* The join property of the i-th record of the last completed input. *)
inKey(i) == IF seriesOpt.joinByNull THEN i ELSE okIn[i].key

(* The mapData records whose join property is the key of no value record. *)
UnreferencedShapes ==
    {j \in 1..Len(mapData) :
        \A i \in 1..Len(okIn) :
            inKey(i) # mapKey(mapData, j, seriesOpt.joinByNull)}

(* The value record at position i of the merged list matches no shape. *)
Unmatched(i) == mapMap(mapData, seriesOpt.joinByNull, data[i].key) = 0

MemberShapes ==
    IF seriesOpt.allAreas THEN 1..Len(mapData) ELSE Range(dataUsed)

MemberBoxes ==
    {<<data[i].minX, data[i].maxX, data[i].minY, data[i].maxY>> :
        i \in {k \in 1..Len(data) : data[k].hasPath /\ data[k].found}}
    \cup {<<mapData[j].minX, mapData[j].maxX, mapData[j].minY,
            mapData[j].maxY>> : j \in MemberShapes}

(* C6 as stated: after any sequence of setData/getBox calls the series box *)
(* is the union of the cached boxes of the current members.                *)

C6_BoxIsUnionOfMembers ==
    jLoaded =>
        IF MemberBoxes = {} THEN ~box.def
        ELSE /\ box.def
             /\ \A m \in MemberBoxes :
                   /\ box.minX <= m[1] /\ m[2] <= box.maxX
                   /\ box.minY <= m[3] /\ m[4] <= box.maxY
             /\ \E m \in MemberBoxes : m[1] = box.minX
             /\ \E m \in MemberBoxes : m[2] = box.maxX
             /\ \E m \in MemberBoxes : m[3] = box.minY
             /\ \E m \in MemberBoxes : m[4] = box.maxY

(* C7 as stated: with allAreas = false every setData call completes and    *)
(* the merged list is the value records in their order, bare nulls as      *)
(* null-valued entries; [1, null, 3] joined by position with three shapes  *)
(* gives three entries, the second with a null value.                      *)
C7_ValueRecordsKept ==
    (jCalls > 0 /\ ~seriesOpt.allAreas) =>
        /\ ~jThrew
        /\ Len(data) = Len(lastIn)
        /\ \A i \in 1..Len(data) :
              /\ data[i].form # "map"
              /\ data[i].hasValue = lastIn[i].hasValue
              /\ data[i].value = lastIn[i].value
        /\ (lastIn = NullExample /\ seriesOpt.joinByNull
               /\ mapData = ThreeShapes)
            => (Len(data) = 3 /\ ~data[2].hasValue)

-----------------------------------------------------------------------------
(* Properties of translatePath (SpecPath) *)

KnownTags == {"M", "L", "C", "Q", "Z"}
CoordCount(t) ==
    IF t \in {"M", "L"} THEN 2
    ELSE IF t = "C" THEN 6 ELSE IF t = "Q" THEN 4 ELSE 0

(* (v - axis.min) * axis.transA + axis.minPixelPadding *)
Image(axis, v) ==
    <<((v - axis.min) * axis.transA[1] * axis.minPixelPadding[2]
        + axis.minPixelPadding[1] * axis.transA[2]),
      axis.transA[2] * axis.minPixelPadding[2]>>

SameNumber(a, b) == a[1] * b[2] = b[1] * a[2]

SquareOut ==
    <<Seg("M", <<RInt(0), RInt(0)>>), Seg("L", <<RInt(100), RInt(0)>>),
      Seg("L", <<RInt(100), RInt(100)>>), Seg("Z", << >>)>>

(* C5: for a path of M, L, C, Q and Z segments translatePath returns the   *)
(* segment-wise image: as many segments, in the same order, with the same  *)
(* tag and coordinate count, every x mapped by the x axis and every y by   *)
(* the y axis as (v - min) * transA + minPixelPadding; the square path     *)
(* under min 0, transA 10, padding 0 gives the square of side 100, and     *)
(* min 0, transA 1, padding 0 return the coordinates unchanged.            *)
C5_SegmentwiseImage ==
    (/\ pDone
     /\ \A i \in 1..Len(pPath) : pPath[i].t \in KnownTags
     /\ pXAxis.minDef /\ pYAxis.minDef)
    =>
    /\ Len(pRet) = Len(pPath)
    /\ \A i \in 1..Len(pPath) :
          /\ pRet[i].t = pPath[i].t
          /\ Len(pRet[i].c) = Len(pPath[i].c)
          /\ Len(pRet[i].c) = CoordCount(pPath[i].t)
          /\ \A k \in 1..Len(pPath[i].c) :
                SameNumber(pRet[i].c[k],
                           Image(IF k % 2 = 1 THEN pXAxis ELSE pYAxis,
                                 pPath[i].c[k]))
    /\ (pPath = SquarePath /\ pXAxis = TenAxis /\ pYAxis = TenAxis)
          => pRet = SquareOut
    /\ (pXAxis = IdentityAxis /\ pYAxis = IdentityAxis)
          => \A i \in 1..Len(pPath) : \A k \in 1..Len(pPath[i].c) :
                 pRet[i].c[k] = RInt(pPath[i].c[k])

(* The square path translated under min 0, transA 10, padding 0. *)
C5_Witness ==
    /\ pDone
    /\ pPath = SquarePath /\ pXAxis = TenAxis /\ pYAxis = TenAxis
    /\ pRet = SquareOut

-----------------------------------------------------------------------------
(* Properties of the redraw (SpecDraw) *)

(* The pixel position the fast path gives coordinate k of segment j of     *)
(* point i: the stored shapeArgs moved by the transform of the group.      *)
FastPosition(i, j, k) ==
    IF k % 2 = 1
    THEN RAdd(transformGroup.translateX,
              RMul(transformGroup.scaleX, points[i].d[j].c[k]))
    ELSE RAdd(transformGroup.translateY,
              RMul(transformGroup.scaleY, points[i].d[j].c[k]))

(* The position translatePath computes under the current axis state. *)
FullPosition(i, j, k) ==
    translatePath(xAxis, yAxis, points[i].path)[j].c[k]

WithinOnePixel(a, b) == RLe(RAbs(RSub(a, b)), RInt(1))

PanDrawnFast ==
    /\ lastMode = "fast"
    /\ sinceFull = "pan"
    /\ phase \in {"drawn", "idle"}

(* C2 as stated: after a pure pan drawn by the fast path, every path       *)
(* coordinate lies within one pixel of where translatePath puts it under   *)
(* the current axis state, on the X and on the Y axis.                     *)
C2_FastEqualsFull ==
    PanDrawnFast =>
        \A i \in 1..Len(points) :
            points[i].shapeDef =>
                \A j \in 1..Len(points[i].d) :
                    \A k \in 1..Len(points[i].d[j].c) :
                        WithinOnePixel(FastPosition(i, j, k),
                                       FullPosition(i, j, k))

(* The same on the X axis, and on the Y axis when it is reversed. *)
C2_FastEqualsFullReversedY ==
    PanDrawnFast =>
        \A i \in 1..Len(points) :
            points[i].shapeDef =>
                \A j \in 1..Len(points[i].d) :
                    \A k \in 1..Len(points[i].d[j].c) :
                        (k % 2 = 1 \/ yAxis.reversed) =>
                            WithinOnePixel(FastPosition(i, j, k),
                                           FullPosition(i, j, k))

(* What doFullTranslate is to decide on, read from the state. *)
NeedsFull == isDirtyData \/ isResizing \/ isVML \/ ~baseTrans.def

TranslateStep == phase \in {"idle", "translated"} /\ phase' = "translated"
DrawStep == phase = "translated" /\ phase' = "drawn"

(* C3: translate and drawPoints do the full work exactly when the data is  *)
(* dirty, the chart is resizing, the renderer is VML or there is no        *)
(* baseTrans; otherwise translate leaves the paths alone and drawPoints    *)
(* only transforms the group, and it never does so without a baseTrans: a  *)
(* full draw sets baseTrans, a fast draw keeps the one it reads.           *)
C3_FullTranslateCriteria ==
    [][/\ TranslateStep =>
            /\ (tMode' = "full") <=> NeedsFull
            /\ (tMode' = "fast") <=> ~NeedsFull
            /\ ~NeedsFull =>
                  \A i \in 1..Len(points) :
                      /\ points'[i].d = points[i].d
                      /\ points'[i].shapeDef = points[i].shapeDef
            /\ NeedsFull =>
                  \A i \in 1..Len(points) : points'[i].shapeDef
       /\ DrawStep =>
            /\ (lastMode' = "full") <=> NeedsFull
            /\ (lastMode' = "fast") <=> ~NeedsFull
            /\ (lastMode' = "fast") =>
                  /\ baseTrans.def
                  /\ baseTrans' = baseTrans
                  /\ transformGroup' = fastTransform(xAxis, yAxis, baseTrans)
            /\ (lastMode' = "full") =>
                  /\ baseTrans'.def
                  /\ transformGroup' = Identity
      ]_vars

(* A resizing chart with a baseTrans was drawn in full, and later, no      *)
(* longer resizing, by the fast path.                                      *)
C3_Witness ==
    /\ phase = "drawn" /\ lastMode = "fast" /\ tMode = "fast"
    /\ baseTrans.def /\ ~isResizing /\ ~isDirtyData /\ ~isVML
    /\ transformGroup # Identity

(* C4: a second translate on unchanged data and axis state leaves plotX,   *)
(* plotY and the shape path of every point as the first one made them.     *)
C4_TranslateIdempotent ==
    repeated => Geometry(points) = prevGeom

(* translate ran twice in full mode on a series whose points have a        *)
(* middle point and a path.                                                *)
C4_Witness ==
    /\ repeated /\ phase = "translated" /\ tMode = "full"
    /\ \E i \in 1..Len(points) :
          /\ points[i].plotDef /\ points[i].shapeDef
          /\ points[i].plotX # <<0, 1>> /\ Len(points[i].d) > 0

-----------------------------------------------------------------------------
(* Properties of the stock compare (SpecCompare) *)

(* C9: with the value and compareValue defined, modifyValue returns        *)
(* value - compareValue in mode 'value' and                                *)
(* 100 * (value / compareValue) - (compareBase === 100 ? 0 : 100) in mode  *)
(* 'percent' (compareValue 50, value 75, compareBase unset: 50); the       *)
(* series has a modifyValue for these two modes only, and a call leaves    *)
(* the processed y values as they were.                                    *)
C9_ModifyValueFormula ==
    [][/\ hasModifyValue' <=> (compare' \in {"value", "percent"})
       /\ (cOp' = "modify") =>
            /\ hasModifyValue
            /\ processedYData' = processedYData
            /\ (cArg'.def /\ compareValue.def) =>
                 /\ (compare = "value") =>
                       cRet' = <<cArg'.v - compareValue.v, 1>>
                 /\ (compare = "percent") =>
                       cRet'[1] * compareValue.v =
                          (100 * cArg'.v
                            - (IF options.compareBase = Defined(100)
                               THEN 0 ELSE 100) * compareValue.v) * cRet'[2]
                 /\ (/\ compare = "percent" /\ compareValue.v = 50
                     /\ cArg'.v = 75 /\ ~options.compareBase.def) =>
                       cRet' = <<50, 1>>
      ]_vars

(* modifyValue(75) in mode 'percent' with compareValue 50 and compareBase  *)
(* unset returned 50.                                                      *)
C9_Witness ==
    /\ cOp = "modify" /\ compare = "percent" /\ hasModifyValue
    /\ compareValue = Defined(50) /\ cArg = Defined(75)
    /\ ~options.compareBase.def
    /\ cRet = <<50, 1>>
    /\ Len(processedYData) > 0

(* The first processed point within the visible range, 0 if there is none. *)
FirstVisible ==
    LET vis == {i \in 1..Len(processedXData) :
                   processedXData[i] >= xAxisMin}
    IN  IF vis = {} THEN 0 ELSE CHOOSE i \in vis : \A j \in vis : i <= j

Usable(i) == processedYData[i].num /\ processedYData[i].v # 0

StartInRange == options.compareStart = Defined(TRUE)

(* C10 as stated: after processData the baseline is the value of the first *)
(* point within the visible range when compareStart is true, and of the    *)
(* point before the visible range when it is not; a point whose value is   *)
(* null or 0 is skipped and the next point is used.                        *)
C10_BaselineFromFirstCandidate ==
    (/\ cOp = "process"
     /\ FirstVisible # 0
     /\ StartInRange \/ FirstVisible > 1)
    =>
    LET from == IF StartInRange THEN FirstVisible ELSE FirstVisible - 1
        cands == {i \in from..Len(processedYData) : Usable(i)}
    IN  cands # {} =>
          compareValue =
             Defined(processedYData[CHOOSE i \in cands :
                                       \A j \in cands : i <= j].v)

(* The same where a usable candidate exists before the last processed      *)
(* point, or compareStart is true.                                         *)
C10_BaselineBeforeLastPoint ==
    (/\ cOp = "process"
     /\ FirstVisible # 0
     /\ StartInRange \/ FirstVisible > 1)
    =>
    LET from == IF StartInRange THEN FirstVisible ELSE FirstVisible - 1
        upto == IF StartInRange THEN Len(processedYData)
                ELSE Len(processedYData) - 1
        cands == {i \in from..upto : Usable(i)}
    IN  cands # {} =>
          compareValue =
             Defined(processedYData[CHOOSE i \in cands :
                                       \A j \in cands : i <= j].v)

(* C11 as stated: after every processData call compareValue is the         *)
(* baseline that the current processed data and the current xAxis.min      *)
(* yield, and it is undefined when they yield none: no baseline of an      *)
(* earlier domain or of earlier data is left in place.                      *)
C11_BaselineOfCurrentData ==
    (cOp = "process") =>
        LET i == firstCompareIndex(processedXData, processedYData,
                                   xAxisMin, options)
        IN  compareValue = IF i = 0 THEN Undefined
                           ELSE Defined(processedYData[i].v)

(* The same where the current data and domain yield a baseline. *)
C11_BaselineWhenFound ==
    (cOp = "process") =>
        LET i == firstCompareIndex(processedXData, processedYData,
                                   xAxisMin, options)
        IN  i # 0 => compareValue = Defined(processedYData[i].v)

-----------------------------------------------------------------------------
(* Properties of the column pyramid (SpecPyramid) *)

FiniteShape(sa) ==
    /\ Finite(sa.x) /\ Finite(sa.y) /\ Finite(sa.width) /\ Finite(sa.height)
    /\ \A j \in 1..Len(sa.d) : \A k \in 1..Len(sa.d[j].c) :
          Finite(sa.d[j].c[k])

(* C12 as stated: in a normal and in an inverted chart, a point whose      *)
(* stack height in pixels is 0 gets topXwidth = bottomXwidth = 0 and       *)
(* shapeArgs (x, y, width, d) without NaN or Infinity.                     *)
C12_ZeroStackHeightGuarded ==
    pyDone =>
        \A i \in 1..Len(pyPoints) :
            (pyPoints[i].shapeArgs.stackHeight = RInt(0)) =>
                /\ pyPoints[i].shapeArgs.topXwidth = RInt(0)
                /\ pyPoints[i].shapeArgs.bottomXwidth = RInt(0)
                /\ FiniteShape(pyPoints[i].shapeArgs)

(* The same in a chart that is not inverted. *)
C12_GuardedWhenNotInverted ==
    (pyDone /\ ~pyChart.inverted) =>
        \A i \in 1..Len(pyPoints) :
            /\ FiniteShape(pyPoints[i].shapeArgs)
            /\ (pyPoints[i].shapeArgs.stackHeight = RInt(0)) =>
                  /\ pyPoints[i].shapeArgs.topXwidth = RInt(0)
                  /\ pyPoints[i].shapeArgs.bottomXwidth = RInt(0)


-----------------------------------------------------------------------------
(* Properties of getBox: the minRange of the axes and the series box       *)

PathPoints == {i \in 1..Len(data) : data[i].hasPath}

(* The smallest width or height of a point box among the points of the     *)
(* last getBox call.                                                       *)
SmallestExtent ==
    LET e == {Min2(data[i].maxX - data[i].minX,
                   data[i].maxY - data[i].minY) : i \in PathPoints}
    IN  CHOOSE m \in e : \A o \in e : m <= o

SetMinRange(prevCounts, prev, extent) ==
    LET m == RMin(RInt(5 * SmallestExtent), RDiv(RInt(extent), RInt(5)))
    IN  IF prevCounts THEN RMin(m, prev.v) ELSE m

MinRangeKept(axisOption, now, prev) == axisOption => now = prev

(* C13 as stated: after a getBox call that processed a point with a path,  *)
(* an axis without a minRange option has as minRange the minimum of 5      *)
(* times the smallest single-point extent, one fifth of the series extent  *)
(* on that axis and the previously set axis.minRange; an axis with the     *)
(* option keeps its minRange.                                              *)
C13_MinRangeIsMinimum ==
    before.called /\ PathPoints # {} =>
        /\ ~minRangeOption.x =>
              /\ minRange.x.def
              /\ minRange.x.v = SetMinRange(before.minRange.x.def,
                                            before.minRange.x,
                                            box.maxX - box.minX)
        /\ ~minRangeOption.y =>
              /\ minRange.y.def
              /\ minRange.y.v = SetMinRange(before.minRange.y.def,
                                            before.minRange.y,
                                            box.maxY - box.minY)
        /\ MinRangeKept(minRangeOption.x, minRange.x, before.minRange.x)
        /\ MinRangeKept(minRangeOption.y, minRange.y, before.minRange.y)

Counts(prev) == prev.def /\ prev.v[1] # 0

(* C13 amended: the previously set axis.minRange takes part in the         *)
(* minimum only when it is not 0; a previous minRange of 0 is treated as   *)
(* not set, so the call sets the minimum of the other two terms.           *)
C13_MinRangeIsMinimumOfNonZero ==
    before.called /\ PathPoints # {} =>
        /\ ~minRangeOption.x =>
              /\ minRange.x.def
              /\ minRange.x.v = SetMinRange(Counts(before.minRange.x),
                                            before.minRange.x,
                                            box.maxX - box.minX)
        /\ ~minRangeOption.y =>
              /\ minRange.y.def
              /\ minRange.y.v = SetMinRange(Counts(before.minRange.y),
                                            before.minRange.y,
                                            box.maxY - box.minY)
        /\ MinRangeKept(minRangeOption.x, minRange.x, before.minRange.x)
        /\ MinRangeKept(minRangeOption.y, minRange.y, before.minRange.y)


Contains(outer, inner) ==
    /\ outer.def
    /\ outer.minX <= inner.minX /\ outer.maxX >= inner.maxX
    /\ outer.minY <= inner.minY /\ outer.maxY >= inner.maxY

-----------------------------------------------------------------------------
(* Properties of translatePath: missing bounds and missing paths           *)

MinAsZero(axis) ==
    IF axis.minDef THEN axis ELSE [axis EXCEPT !.minDef = TRUE, !.min = 0]

(* C15: translatePath does not throw; with xAxis.min or yAxis.min          *)
(* undefined the result is the one computed with that bound taken as 0;    *)
(* a missing (undefined or null) path yields an empty path.                *)
C15_NoThrowMissingBoundsAndPath ==
    pDone =>
        /\ ~pThrew
        /\ pKind = "array" =>
              pRet = translatePath(MinAsZero(pXAxis), MinAsZero(pYAxis),
                                   pPath)
        /\ pKind # "array" => pRet = << >>

(* A call with a missing path on axes one of which has no min. *)
C15_Witness ==
    /\ pDone
    /\ pKind = "null"
    /\ ~pXAxis.minDef /\ pYAxis.minDef

(* A call with a path of coordinates on an x axis without min. *)
C15_WitnessNoMin ==
    /\ pDone /\ pKind = "array"
    /\ ~pXAxis.minDef /\ pYAxis.minDef /\ pYAxis.min # 0
    /\ \E i \in 1..Len(pRet) : Len(pRet[i].c) >= 2


-----------------------------------------------------------------------------
(* Properties of Timeline                                                  *)

(* C16: from the return of pause() until the next play or rewind,          *)
(* pathsPlaying is empty, the timeline cursor and every path cursor are    *)
(* as they were, and no path plays, also when the start of the paths was   *)
(* still pending on the fade-out timeout.                                  *)
C16_PauseStopsPlaying ==
    tlHist.paused =>
        /\ pathsPlaying = {}
        /\ tlCursor = tlHist.cursor
        /\ pathCursor = tlHist.pcur
        /\ \A p \in AllPaths(tlPaths) : ~pathActive[p]

(* A pause called after one play or rewind, while no timeout of           *)
(* playPaths is pending, stops the timeline as stated.                     *)
C16_PauseStopsWhenNothingPending ==
    tlHist.paused /\ tlHist.plays = 1 /\ ~tlHist.pending =>
        /\ pathsPlaying = {}
        /\ tlCursor = tlHist.cursor
        /\ pathCursor = tlHist.pcur
        /\ \A p \in AllPaths(tlPaths) : ~pathActive[p]


(* One play forward, no rewind and no pause, on a fresh timeline. *)
CleanPlay == tlHist.plays = 1 /\ tlHist.forward /\ tlHist.pauses = 0

GroupOf(p) == CHOOSE g \in 1..Len(tlPaths) : p \in tlPaths[g]

FinishedGroups == {g \in 1..Len(tlPaths) : tlPaths[g] \subseteq tlEnded}

Quiescent ==
    tlTimers = {} /\ \A p \in AllPaths(tlPaths) : ~pathActive[p]

EndEmittedOnce ==
    /\ tlSignals.playOnEnd = 1 /\ tlSignals.masterOnEnd = 1
    /\ ~tlSignals.cancelled

(* C17: in a forward play without pause or cancellation the groups start   *)
(* in list order, a group starts only after every path of the preceding    *)
(* group has ended, the cursor advances by one per finished group, and     *)
(* playOnEnd and masterOnEnd are emitted once each, after the last path    *)
(* of the last group has ended; on an empty timeline both are emitted at   *)
(* once with cancelled false.                                              *)
C17_GroupsPlayInOrder ==
    CleanPlay =>
        /\ \A i, j \in DOMAIN tlStarted :
              i < j => GroupOf(tlStarted[i]) <= GroupOf(tlStarted[j])
        /\ \A j \in DOMAIN tlStarted :
              GroupOf(tlStarted[j]) > 1 =>
                  tlPaths[GroupOf(tlStarted[j]) - 1] \subseteq tlEnded
        /\ Len(tlPaths) > 0 =>
              tlCursor = Min2(Cardinality(FinishedGroups),
                              Len(tlPaths) - 1)
        /\ tlSignals.playOnEnd <= 1 /\ tlSignals.masterOnEnd <= 1
        /\ tlSignals.playOnEnd = tlSignals.masterOnEnd
        /\ tlSignals.playOnEnd = 1 =>
              /\ AllPaths(tlPaths) \subseteq tlEnded
              /\ Quiescent
              /\ ~tlSignals.cancelled
        /\ Quiescent => EndEmittedOnce
        /\ Len(tlPaths) = 0 => EndEmittedOnce

(* A play of two groups, the first of two paths, that has come to its end. *)
C17_Witness ==
    /\ CleanPlay
    /\ Len(tlPaths) = 2 /\ Cardinality(tlPaths[1]) = 2
    /\ tlCursor = 1
    /\ EndEmittedOnce


-----------------------------------------------------------------------------
(* Properties of TimelinePath                                              *)

(* C18: when a path emits masterOnEnd and playOnEnd for a play that was    *)
(* not cancelled, no event of the path is still playing and no further     *)
(* event is scheduled, whatever the durations of the events.               *)
C18_EndOnlyWhenAllEventsEnded ==
    evSignals.count > 0 /\ ~evSignals.cancelled =>
        /\ evSignals.playing = {}
        /\ ~evSignals.scheduled

(* The end is emitted once, when the event without next event has ended,   *)
(* and with nothing scheduled.                                             *)
C18_EndWhenLastEventEnded ==
    /\ evSignals.count <= 1
    /\ evSignals.count > 0 /\ ~evSignals.cancelled =>
          /\ evCursor = Len(events) - 1
          /\ Len(events) \notin evSignals.playing
          /\ ~evSignals.scheduled


-----------------------------------------------------------------------------
(* Properties of Point.sonify                                              *)

Skipped == snPoint.isNull \/ ~snPoint.visible \/ ~snPoint.seriesVisible

DefsWithInstrument == {i \in DOMAIN snDefs : snDefs[i] # 0}

SameInstrumentTwice ==
    \E i, j \in DefsWithInstrument : i # j /\ snDefs[i] = snDefs[j]

(* C19: the point's onEnd is emitted once per sonify call: at once for a   *)
(* null or invisible point, otherwise only after every instrument the     *)
(* call started has ended, also when two definitions name the same         *)
(* instrument.                                                             *)
C19_OnEndExactlyOnce ==
    snCalled /\ (Skipped \/ DefsWithInstrument # {}) =>
        /\ snOnEnd.count <= 1
        /\ ~snOnEnd.early
        /\ Skipped => snOnEnd.count = 1
        /\ snNotes = {} => snOnEnd.count = 1

(* With every definition naming an instrument of its own the signal is     *)
(* emitted once, after the last note.                                      *)
C19_OnceForDistinctInstruments ==
    snCalled /\ (Skipped \/ DefsWithInstrument # {})
        /\ ~SameInstrumentTwice =>
        /\ snOnEnd.count <= 1
        /\ ~snOnEnd.early
        /\ Skipped => snOnEnd.count = 1
        /\ snNotes = {} => snOnEnd.count = 1


-----------------------------------------------------------------------------
(* Properties of imageToDataUrl                                            *)

Outcomes ==
    {"successCallback", "taintedCallback", "noCanvasSupportCallback",
     "failedLoadCallback"}

FinallyCalls == {i \in DOMAIN imLog : imLog[i] = "finallyCallback"}

Retried == taintedHandler = "taintedCallback"

FinallyOnceAtEnd ==
    /\ Cardinality(FinallyCalls) <= 1
    /\ \A i \in FinallyCalls :
          /\ i = Len(imLog)
          /\ imPhase = "settled"
          /\ i > 1 /\ imLog[i - 1] \in Outcomes
    /\ imPhase = "settled" => FinallyCalls # {}

(* C20: finallyCallback is called once per call of imageToDataUrl and      *)
(* only at the end, after the final outcome callback, also when the first  *)
(* canvas read is tainted and the load is retried with crossOrigin         *)
(* 'Anonymous'.                                                            *)
C20_FinallyOnceAtEnd ==
    imArgs.hasFinally /\ ~imArgs.successThrows => FinallyOnceAtEnd

(* Without a retry finallyCallback is called once, after the outcome. *)
C20_FinallyOnceWithoutRetry ==
    imArgs.hasFinally /\ ~imArgs.successThrows /\ ~Retried
        => FinallyOnceAtEnd


-----------------------------------------------------------------------------
(* Properties of the redraw: full and fast mode of translate and           *)
(* drawPoints.                                                             *)

(* C21: after drawPoints has run in full-translate mode, baseTrans records *)
(* the current transA of both axes, its origin is the data-space position  *)
(* of the upper-left corner of the plot area (pixel 0 on both axes), the   *)
(* path of every point was computed under the same axes, and the transform *)
(* group targets the identity transform.                                   *)
C21_FullDrawRecordsAxes ==
    (phase = "drawn" /\ lastMode = "full") =>
        /\ baseTrans.def
        /\ baseTrans.transAX = xAxis.transA
        /\ baseTrans.transAY = yAxis.transA
        /\ toPixels(xAxis, TRUE, baseTrans.originX) = RInt(0)
        /\ toPixels(yAxis, FALSE, baseTrans.originY) = RInt(0)
        /\ \A i \in 1..Len(points) :
              /\ points[i].shapeDef
              /\ points[i].d = translatePath(xAxis, yAxis, points[i].path)
        /\ transformGroup = Identity

(* A full draw after panning and zooming away from the first axis state,   *)
(* with pixel padding on the x axis.                                       *)
C21_Witness ==
    /\ phase = "drawn" /\ lastMode = "full"
    /\ xAxis.min + yAxis.min > 0
    /\ xAxis.minPixelPadding # RInt(0)
    /\ xAxis.transA # RInt(1)
    /\ ~yAxis.reversed

FastScaleX == RDiv(xAxis.transA, baseTrans.transAX)

FastScaleY == RDiv(yAxis.transA, baseTrans.transAY)

FastTranslateX == toPixels(xAxis, TRUE, baseTrans.originX)

FastTranslateY == toPixels(yAxis, FALSE, baseTrans.originY)

Rounded ==
    [translateX |-> RInt(MathRound(FastTranslateX)),
     translateY |-> RInt(MathRound(FastTranslateY)),
     scaleX |-> RInt(1), scaleY |-> RInt(1)]

Unaltered ==
    [translateX |-> FastTranslateX, translateY |-> FastTranslateY,
     scaleX |-> FastScaleX, scaleY |-> FastScaleY]

(* C23 as stated: in fast-transform mode, when the scale of both axes lies *)
(* in [0.99, 1.01], bounds included, the scales are set to 1 and the       *)
(* translation is rounded; otherwise neither is altered.                   *)
C23_RoundsWithinBoundsIncluded ==
    (phase = "drawn" /\ lastMode = "fast") =>
        transformGroup =
            IF /\ RLe(<<99, 100>>, FastScaleX) /\ RLe(FastScaleX, <<101, 100>>)
               /\ RLe(<<99, 100>>, FastScaleY) /\ RLe(FastScaleY, <<101, 100>>)
            THEN Rounded ELSE Unaltered

(* C23 amended: the scales are set to 1 and the translation is rounded     *)
(* when the scale of both axes lies strictly between 0.99 and 1.01; a      *)
(* scale of exactly 0.99 or 1.01, like any scale outside the range, leaves *)
(* the scales and the translation unaltered.                               *)
C23_RoundsStrictlyWithinBounds ==
    (phase = "drawn" /\ lastMode = "fast") =>
        transformGroup =
            IF /\ RLt(<<99, 100>>, FastScaleX) /\ RLt(FastScaleX, <<101, 100>>)
               /\ RLt(<<99, 100>>, FastScaleY) /\ RLt(FastScaleY, <<101, 100>>)
            THEN Rounded ELSE Unaltered

(* A fast draw whose x scale is exactly 0.99 and whose translation is not  *)
(* a whole number of pixels.                                               *)
C23_Witness ==
    /\ phase = "drawn" /\ lastMode = "fast"
    /\ FastScaleX = <<99, 100>>
    /\ FastScaleY = RInt(1)
    /\ Rounded # Unaltered


-----------------------------------------------------------------------------
(* Properties of getBox: the cached box of a point                         *)

(* The end points of the segments of a path: the last two entries of each  *)
(* segment that has them.                                                  *)
EndPoints(path) ==
    {<<path[s].c[Len(path[s].c) - 1], path[s].c[Len(path[s].c)]>> :
        s \in {t \in 1..Len(path) : Len(path[t].c) >= 2}}

(* Every coordinate pair of the segments of a path, the control points of  *)
(* C and Q segments included.                                              *)
AllPairs(path) ==
    UNION {{<<path[s].c[2 * k - 1], path[s].c[2 * k]>> :
               k \in 1..(Len(path[s].c) \div 2)} : s \in 1..Len(path)}

MinOf(S) == CHOOSE m \in S : \A o \in S : m <= o
MaxOf(S) == CHOOSE m \in S : \A o \in S : m >= o

BoxOver(pairs) ==
    [minX |-> MinOf({q[1] : q \in pairs}),
     maxX |-> MaxOf({q[1] : q \in pairs}),
     minY |-> MinOf({q[2] : q \in pairs}),
     maxY |-> MaxOf({q[2] : q \in pairs})]

CachedBox(p) ==
    [minX |-> p.minX, maxX |-> p.maxX, minY |-> p.minY, maxY |-> p.maxY]

(* The box of a point in whose path no segment ends in two numbers. *)
SentinelBox ==
    [minX |-> MAX_VALUE, maxX |-> -MAX_VALUE,
     minY |-> MAX_VALUE, maxY |-> -MAX_VALUE]

(* The points the last getBox call analysed for the first time. *)
FirstAnalysed ==
    {i \in 1..Len(before.paths) :
        before.paths[i].hasPath /\ ~before.paths[i].found}

(* C24 as stated: the first time getBox analyses a point, the cached box   *)
(* is the minimum and maximum over every coordinate pair of every segment  *)
(* of the path, the control points of C and Q segments included.           *)
C24_BoxCoversEveryPair ==
    before.called =>
        \A i \in FirstAnalysed :
            AllPairs(data[i].path) # {} =>
                CachedBox(data[i]) = BoxOver(AllPairs(data[i].path))

(* C24 amended: the first time getBox analyses a point, the cached box is  *)
(* the minimum and maximum over the end point (the last coordinate pair)   *)
(* of every segment of the path; control points do not count, and a path   *)
(* without such a pair leaves MAX_VALUE and -MAX_VALUE in the cache.       *)
C24_BoxCoversEndPoints ==
    before.called =>
        \A i \in FirstAnalysed :
            /\ data[i].found
            /\ CachedBox(data[i]) =
                  IF EndPoints(data[i].path) = {} THEN SentinelBox
                  ELSE BoxOver(EndPoints(data[i].path))

(* A first analysis of a point whose path has a control point outside the  *)
(* box of its end points.                                                  *)
C24_Witness ==
    /\ before.called
    /\ \E i \in FirstAnalysed :
          /\ EndPoints(data[i].path) # {}
          /\ BoxOver(AllPairs(data[i].path))
                # BoxOver(EndPoints(data[i].path))
          /\ CachedBox(data[i]) = BoxOver(EndPoints(data[i].path))

(* The cache getBox keeps on a point record. *)
Cache(p) ==
    [box |-> CachedBox(p), midX |-> p.midX, midY |-> p.midY,
     labelrank |-> p.labelrank]

(* C25: once getBox has computed the box of a point (_foundBox true), a    *)
(* later getBox call on the same record leaves _minX, _maxX, _minY, _maxY, *)
(* _midX, _midY and labelrank unchanged, and a labelrank the record was    *)
(* given is never overwritten by the box area.                             *)
C25_AnalysedOnce ==
    before.called =>
        \A i \in 1..Len(before.paths) :
            /\ before.paths[i].found =>
                  /\ data[i].found
                  /\ Cache(data[i]) = Cache(before.paths[i])
            /\ before.paths[i].labelrank.def =>
                  data[i].labelrank = before.paths[i].labelrank

(* A second call on records of the first: one of them had its path         *)
(* replaced in between and keeps the box of its old path, the other was    *)
(* given a labelrank that is not its box area.                             *)
C25_Witness ==
    /\ before.called
    /\ \E i \in 1..Len(before.paths) :
          /\ before.paths[i].found
          /\ EndPoints(data[i].path) # {}
          /\ CachedBox(data[i]) # BoxOver(EndPoints(data[i].path))
    /\ \E j \in 1..Len(before.paths) :
          /\ before.paths[j].found
          /\ data[j].labelrank = [def |-> TRUE, v |-> 7]
          /\ (data[j].maxX - data[j].minX) * (data[j].maxY - data[j].minY) # 7

(* The arguments of the last call with every point whose path has no       *)
(* numeric coordinate pair taken as a point without a path.                *)
WithoutNoPairPaths ==
    [i \in 1..Len(before.paths) |->
        IF /\ before.paths[i].hasPath /\ ~before.paths[i].found
           /\ EndPoints(before.paths[i].path) = {}
        THEN [before.paths[i] EXCEPT !.hasPath = FALSE]
        ELSE before.paths[i]]

(* C26: a point whose path has no numeric coordinate pair is skipped: the  *)
(* series box and the minRange of the axes after the call are those of the *)
(* same call with that point having no path at all.                        *)
C26_NoPairPathSkipped ==
    before.called =>
        /\ box = getBox(WithoutNoPairPaths, before.box).box
        /\ minRange = getBoxMinRange(WithoutNoPairPaths, before.box,
                                     before.minRange, minRangeOption)


-----------------------------------------------------------------------------
(* Properties of the column pyramid: the stack total                       *)

(* C27: with stacking 'percent' the stack total of a point is overwritten  *)
(* to -100 when the y of the point is negative and to 100 otherwise, for   *)
(* every value of the threshold option.                                    *)
C27_PercentStackTotal ==
    (pyDone /\ pyChart.stacking = "percent") =>
        \A i \in 1..Len(pyPoints) :
            pyPoints[i].stackTotal =
                IF pyPoints[i].y < 0 THEN -100 ELSE 100

(* The same for a threshold option of 0. *)
C27_PercentStackTotalZeroThreshold ==
    (pyDone /\ pyChart.stacking = "percent" /\ pyChart.optThreshold = 0) =>
        \A i \in 1..Len(pyPoints) :
            pyPoints[i].stackTotal =
                IF pyPoints[i].y < 0 THEN -100 ELSE 100


-----------------------------------------------------------------------------
(* Properties of the forced markers                                        *)

(* The points whose own marker option is enabled = false, in a series      *)
(* whose markers are forced and whose points have marker options of their  *)
(* own, with no option changed since the chart was made.                   *)
OwnDisabled ==
    IF fmForce /\ ~fmChanged /\ fmSeries.hasPointMarkers
    THEN {i \in 1..Len(fmPoints) :
             fmPoints[i].own.marker /\ fmPoints[i].own.enabled = "false"}
    ELSE {}

MarkerForced(pt) ==
    /\ pt.enabled = "true"
    /\ pt.opacity = "0"
    /\ pt.hasForcedA11yMarker = "true"

(* C28: for a point whose own marker option is enabled = false, after any  *)
(* number of consecutive render events with no other option change the     *)
(* marker stays forced: enabled is true, the opacity of the normal state   *)
(* is 0 and hasForcedA11yMarker is true.                                   *)
C28_MarkerStaysForced ==
    fmRenders >= 1 => \A i \in OwnDisabled : MarkerForced(fmPoints[i])

(* The same after the first render event alone. *)
C28_MarkerForcedByFirstRender ==
    fmRenders = 1 => \A i \in OwnDisabled : MarkerForced(fmPoints[i])


-----------------------------------------------------------------------------
(* Properties of the local export                                          *)

(* The number of calls of one kind made so far. *)
Calls(what) == Cardinality({k \in 1..Len(exLog) : exLog[k] = what})

(* getSVGForLocalExport has run and no image conversion is in flight. *)
ConversionsOver ==
    /\ \E k \in 1..Len(exLog) : exLog[k] = "getSVGForLocalExport"
    /\ exRun.pending = {}

(* C29: for a getSVGForLocalExport call exactly one of successCallback and *)
(* failCallback is invoked, exactly once: successCallback after every      *)
(* image has been embedded or removed, failCallback otherwise, however     *)
(* many conversions fail and in whatever order they complete.              *)
C29_ExactlyOneCallback ==
    /\ Calls("successCallback") + Calls("failCallback") <= 1
    /\ ConversionsOver =>
          /\ Calls("successCallback") + Calls("failCallback") = 1
          /\ (Calls("successCallback") = 1) <=> (exRun.failed = {})

(* The images of the chart that getSVGForLocalExport converts. *)
Convertible ==
    {i \in 1..Len(exImages) : exImages[i] \in {"data", "external"}}

(* The same for a chart with at most one image to convert and a fallback   *)
(* that does not throw.                                                    *)
C29_ExactlyOneCallbackOneConversion ==
    (/\ Cardinality(Convertible) <= 1
     /\ ~(exEnv.fallbackToExportServer = "false" /\ ~exEnv.hasError)) =>
        /\ Calls("successCallback") + Calls("failCallback") <= 1
        /\ ConversionsOver =>
              /\ Calls("successCallback") + Calls("failCallback") = 1
              /\ (Calls("successCallback") = 1) <=> (exRun.failed = {})

(* Local export is unsupported for the chart and the browser: an MS        *)
(* browser with PDF or with images and a type other than SVG, or PDF with  *)
(* an external image.                                                      *)
UnsupportedCombination ==
    \/ /\ exEnv.isMS
       /\ \/ exEnv.type = "application/pdf"
          \/ Len(exImages) > 0 /\ exEnv.type # "image/svg+xml"
    \/ /\ exEnv.type = "application/pdf"
       /\ \E i \in 1..Len(exImages) : exImages[i] = "external"

(* The SVG holds a foreignObject and the type is not SVG, on an MS browser *)
(* or for PDF.                                                             *)
UnsupportedForeignObject ==
    /\ exEnv.foreignObject
    /\ exEnv.type # "image/svg+xml"
    /\ (exEnv.isMS \/ exEnv.type = "application/pdf")

(* The times local export was found unsupported or a failure was reported  *)
(* through the fail callback.                                              *)
Fallbacks ==
    (IF UnsupportedCombination THEN 1 ELSE 0)
    + (IF UnsupportedForeignObject THEN Calls("successCallback") ELSE 0)
    + Calls("failCallback")
    + (IF exRun.download = "failed" THEN 1 ELSE 0)

FallbackAnswered ==
    /\ Calls("exportChart") =
          IF exEnv.fallbackToExportServer = "false" THEN 0 ELSE Fallbacks
    /\ Calls("options.error") =
          IF exEnv.fallbackToExportServer = "false" /\ exEnv.hasError
          THEN Fallbacks ELSE 0
    /\ Calls("error28") =
          IF exEnv.fallbackToExportServer = "false" /\ ~exEnv.hasError
          THEN Fallbacks ELSE 0
    /\ UnsupportedCombination => Calls("getSVGForLocalExport") = 0

(* C30: whenever local export is unsupported or a failure is reported      *)
(* through the fail callback, exportChartLocal calls chart.exportChart     *)
(* unless options.fallbackToExportServer is false; when it is false it     *)
(* never calls chart.exportChart and calls options.error if defined, else  *)
(* raises error 28; for an unsupported combination no local SVG generation *)
(* is started.                                                             *)
C30_FallbackOnUnsupportedOrFailure ==
    exRun.phase # "idle" => FallbackAnswered

(* The same for a chart in which every image element has a href. *)
C30_FallbackWhenImagesHaveHref ==
    (/\ exRun.phase # "idle"
     /\ \A i \in 1..Len(exImages) : exImages[i] # "none") =>
        FallbackAnswered

=============================================================================
